---- MODULE Spec2Model ----
(***************************************************************************)
(* A model of sunpy/coordinates/transformations.py: the pairwise frame     *)
(* transformation functions, the obstime loopback, the observer equality   *)
(* predicate and the rotation-matrix kernel.                               *)
(*                                                                         *)
(* Numbers are exact rationals <<n, d>> (d > 0, lowest terms); <<0, 0>>    *)
(* stands for a non-finite float (nan or inf).  An angle is the pair       *)
(* <<cos, sin>> of its cosine and sine.  The ephemeris, the Carrington     *)
(* longitude, the solar pole and the obliquity are rational stand-ins for  *)
(* the values the collaborators return: every square root that the code    *)
(* takes of them is rational.                                              *)
(***************************************************************************)
EXTENDS Integers, Sequences, FiniteSets, TLC

(***************************************************************************)
(* Bounds of the model.                                                    *)
(***************************************************************************)
\* Observation times are 1..MaxTime; time 0 is J2000.0.
MaxTime == 2
\* The length of an array-valued obstime (and of the data that goes with it).
ArrLen == 2
\* The nesting depth of calls after which a call is cut off.
\* The largest coordinate of the integer vectors the axes are permuted of.
MaxCoordinate == 2

MaxDepth == 40

(***************************************************************************)
(* Exact rational arithmetic (numpy float arithmetic, without rounding).   *)
(***************************************************************************)
RECURSIVE Gcd(_, _)
Gcd(a, b) == IF b = 0 THEN a ELSE Gcd(b, a % b)

Abs(n) == IF n < 0 THEN -n ELSE n

NaN == <<0, 0>>

IsNaN(q) == q[2] = 0

RNorm(n, d) ==
    IF d = 0 THEN NaN
    ELSE LET g == Gcd(Abs(n), Abs(d))
             s == IF d < 0 THEN -1 ELSE 1
         IN  <<(s * n) \div g, (s * d) \div g>>

R(n) == <<n, 1>>

\* p + q over the least common denominator, g being the gcd of the two
\* denominators.
AddOver(p, q, g) ==
    RNorm(p[1] * (q[2] \div g) + q[1] * (p[2] \div g), (p[2] \div g) * q[2])

RAdd(p, q) == IF IsNaN(p) \/ IsNaN(q) THEN NaN
              ELSE AddOver(p, q, Gcd(p[2], q[2]))

RNeg(p) == IF IsNaN(p) THEN NaN ELSE <<-p[1], p[2]>>

RSub(p, q) == RAdd(p, RNeg(q))

\* p * q with the common factors g1 of p[1] and q[2] and g2 of q[1] and
\* p[2] cancelled first.
MulOver(p, q, g1, g2) ==
    RNorm((p[1] \div g1) * (q[1] \div g2), (p[2] \div g2) * (q[2] \div g1))

RMul(p, q) == IF IsNaN(p) \/ IsNaN(q) THEN NaN
              ELSE MulOver(p, q, Gcd(Abs(p[1]), q[2]), Gcd(Abs(q[1]), p[2]))

\* x / 0 is inf or nan in numpy (a warning, not an exception).
RDiv(p, q) == IF IsNaN(p) \/ IsNaN(q) \/ q[1] = 0 THEN NaN
              ELSE RMul(p, RNorm(q[2], q[1]))

\* The integer square root of a perfect square.
ISqrt(n) == CHOOSE r \in 0..n : r * r = n

\* np.sqrt: of a negative number it is nan.
RSqrt(p) == IF IsNaN(p) \/ p[1] < 0 THEN NaN
            ELSE <<ISqrt(p[1]), ISqrt(p[2])>>

(***************************************************************************)
(* Vectors <<x, y, z>> and 3x3 matrices <<row1, row2, row3>>.              *)
(***************************************************************************)
Vec(x, y, z) == <<R(x), R(y), R(z)>>

VAdd(a, b) == <<RAdd(a[1], b[1]), RAdd(a[2], b[2]), RAdd(a[3], b[3])>>

VSub(a, b) == <<RSub(a[1], b[1]), RSub(a[2], b[2]), RSub(a[3], b[3])>>

VNeg(a) == <<RNeg(a[1]), RNeg(a[2]), RNeg(a[3])>>

VScale(k, a) == <<RMul(k, a[1]), RMul(k, a[2]), RMul(k, a[3])>>

\* CartesianRepresentation.dot
Dot(a, b) == RAdd(RAdd(RMul(a[1], b[1]), RMul(a[2], b[2])), RMul(a[3], b[3]))

\* CartesianRepresentation.cross
Cross(a, b) == <<RSub(RMul(a[2], b[3]), RMul(a[3], b[2])),
                 RSub(RMul(a[3], b[1]), RMul(a[1], b[3])),
                 RSub(RMul(a[1], b[2]), RMul(a[2], b[1]))>>

VIsFinite(a) == \A i \in 1..3 : ~IsNaN(a[i])

\* The matrix of entries e(i, j).
Mat(e(_, _)) == <<<<e(1, 1), e(1, 2), e(1, 3)>>,
                  <<e(2, 1), e(2, 2), e(2, 3)>>,
                  <<e(3, 1), e(3, 2), e(3, 3)>>>>

\* CartesianRepresentation.transform(matrix)
MatVec(m, v) == <<Dot(m[1], v), Dot(m[2], v), Dot(m[3], v)>>

\* matrix_product / the @ operator
MatMul(a, b) ==
    LET c(i, j) == RAdd(RAdd(RMul(a[i][1], b[1][j]), RMul(a[i][2], b[2][j])),
                        RMul(a[i][3], b[3][j]))
    IN  Mat(c)

\* matrix_transpose
matrix_transpose(m) ==
    LET c(i, j) == m[j][i]
    IN  Mat(c)

IdentityMatrix == <<Vec(1, 0, 0), Vec(0, 1, 0), Vec(0, 0, 1)>>

MIsFinite(m) == \A i \in 1..3 : VIsFinite(m[i])

(***************************************************************************)
(* Angles and astropy's rotation_matrix.                                   *)
(***************************************************************************)
Angle(c, s) == <<c, s>>

AngleNeg(a) == <<a[1], RNeg(a[2])>>

\* np.arccos: the angle in [0, pi] with the given cosine.
ArcCos(c) == <<c, RSqrt(RSub(R(1), RMul(c, c)))>>

\* Entry (r, k) of the rotation by the angle of cosine c and sine s about
\* coordinate axis i.
AxisEntry(c, s, i, r, k) ==
    IF r = i \/ k = i THEN (IF r = k THEN R(1) ELSE R(0))
    ELSE IF r = k THEN c
    ELSE IF r = (i % 3) + 1 THEN s
    ELSE RNeg(s)

\* rotation_matrix(angle, 'x' | 'y' | 'z'), the axis given as 1, 2 or 3.
rotation_matrix(angle, i) ==
    LET e(r, k) == AxisEntry(angle[1], angle[2], i, r, k)
    IN  Mat(e)

\* Entry (r, k) of the rotation about the unit vector ax:
\*   R = outer(ax, ax) * (1 - c);  R[i, i] += c;
\*   R[a1, a2] += ax[i] * s;  R[a2, a1] -= ax[i] * s
\* for a1, a2 the axes after i in cyclic order.
UnitAxisEntry(c, s, ax, r, k) ==
    RAdd(RMul(RMul(ax[r], ax[k]), RSub(R(1), c)),
         IF r = k THEN c
         ELSE IF k = (r % 3) + 1 THEN RMul(ax[6 - r - k], s)
         ELSE RNeg(RMul(ax[6 - r - k], s)))

\* axis / norm
Divided(axis, norm) ==
    <<RDiv(axis[1], norm), RDiv(axis[2], norm), RDiv(axis[3], norm)>>

\* rotation_matrix(angle, axis) for an axis given as a vector: the axis is
\* divided by its norm (0/0 = nan for the zero vector).
rotation_matrix_axis(angle, axis) ==
    LET e(r, k) == UnitAxisEntry(angle[1], angle[2],
                                 Divided(axis, RSqrt(Dot(axis, axis))), r, k)
    IN  Mat(e)

(***************************************************************************)
(* The rotation-matrix kernel of transformations.py.                       *)
(***************************************************************************)
\* Time 0 is J2000.0.
_J2000 == 0

\* The obliquity of the ecliptic at J2000.0 (obl06), as <<cos, sin>>.
_OBLIQUITY_J2000 == Angle(<<3, 5>>, <<4, 5>>)

\* The Sun's north pole in HCRS (a unit vector).
_SOLAR_NORTH_POLE_HCRS == <<R(0), <<-3, 5>>, <<4, 5>>>>

\* The permutation without its sign.
MatrixHccToHpcUnsigned == <<Vec(0, 0, 1), Vec(1, 0, 0), Vec(0, 1, 0)>>

_matrix_hcc_to_hpc == <<Vec(0, 0, -1), Vec(1, 0, 0), Vec(0, 1, 0)>>

\* rotation_axis = A.cross(B); rotation_angle = -arccos(A.dot(B) /
\* (A.norm() * B.norm())); rotation_matrix(rotation_angle, rotation_axis)
_rotation_matrix_reprs_to_reprs(A, B) ==
    rotation_matrix_axis(
        AngleNeg(ArcCos(RDiv(Dot(A, B),
                             RMul(RSqrt(Dot(A, A)), RSqrt(Dot(B, B)))))),
        Cross(A, B))

\* No rotation at all.
RotationToXZSkipped(A) == IdentityMatrix

\* A_no_z = A.xyz * [1, 1, 0], rotated to the X axis.

_rotation_matrix_reprs_to_xz_about_z(A) ==
    _rotation_matrix_reprs_to_reprs(
        <<RMul(A[1], R(1)), RMul(A[2], R(1)), RMul(A[3], R(0))>>,
        Vec(1, 0, 0))

_SUN_DETILT_MATRIX ==
    _rotation_matrix_reprs_to_reprs(_SOLAR_NORTH_POLE_HCRS, Vec(0, 0, 1))

\* lon_matrix @ lat_matrix @ axes_matrix
_rotation_matrix_hcc_to_hgs(longitude, latitude) ==
    MatMul(MatMul(rotation_matrix(AngleNeg(longitude), 3),
                  rotation_matrix(latitude, 2)),
           <<Vec(0, 0, 1), Vec(1, 0, 0), Vec(0, 1, 0)>>)

(***************************************************************************)
(* The collaborators: the ephemeris and the Carrington longitude.          *)
(***************************************************************************)
\* get_body_barycentric('sun', t): the Sun moves along its own pole.
SunBarycentric(t) ==
    VScale(IF t % 2 = 1 THEN R(4) ELSE R(0), _SOLAR_NORTH_POLE_HCRS)

\* The Sun-Earth vector at time t, in ICRS axes.
SunEarthVector(t) == IF t % 2 = 1 THEN Vec(0, -5, 0) ELSE Vec(-3, -4, 12)

\* get_body_barycentric('earth', t)
EarthBarycentric(t) == VAdd(SunBarycentric(t), SunEarthVector(t))

\* get_body_barycentric(body, t)
get_body_barycentric(body, t) ==
    IF body = "sun" THEN SunBarycentric(t) ELSE EarthBarycentric(t)

\* sunpy.coordinates.sun.L0(t): the Carrington longitude of the Earth.
L0(t) == IF t % 2 = 1 THEN Angle(<<3, 5>>, <<4, 5>>)
         ELSE Angle(<<-4, 5>>, <<3, 5>>)

\* _sun_earth_icrf(time)
_sun_earth_icrf(t) ==
    VSub(get_body_barycentric("earth", t), get_body_barycentric("sun", t))

\* rot_matrix @ _SUN_DETILT_MATRIX of hcrs_to_hgs for one time of the HGS
\* frame: the de-tilt of the solar rotation axis, then the rotation about Z
\* that puts the Sun-Earth vector in the XZ plane.
TotalMatrixAt(t) ==
    MatMul(_rotation_matrix_reprs_to_xz_about_z(
               MatVec(_SUN_DETILT_MATRIX, _sun_earth_icrf(t))),
           _SUN_DETILT_MATRIX)

\* The same, computed once for each time 0..MaxTime.
TotalMatrices == [i \in 1..(MaxTime + 1) |-> TotalMatrixAt(i - 1)] \o <<>>

hcrs_to_hgs_matrix(t) == TotalMatrices[t + 1]

\* astropy's mean-ecliptic rotation (ICRS axes -> ecliptic axes).
EclipticMatrix(equinox) == rotation_matrix(_OBLIQUITY_J2000, 1)

\* sunpy.coordinates.ephemeris.get_earth(t): the Earth in
\* HeliographicStonyhurst, at longitude 0.
EarthHGS(t) == IF t % 2 = 1 THEN Vec(4, 0, 3) ELSE Vec(5, 0, 12)

(***************************************************************************)
(* Times.  An obstime is a sequence of times: <<>> is None, a sequence of  *)
(* length 1 a scalar time, a longer one an array of times.  Arrays         *)
(* broadcast against scalars element by element.                           *)
(***************************************************************************)
None == <<>>

\* The sequence f with its elements evaluated.
Tuple(f) == f \o <<>>

Max(a, b) == IF a >= b THEN a ELSE b

\* Element i of a broadcast sequence.
El(s, i) == IF Len(s) = 1 THEN s[1] ELSE s[i]

\* The length two broadcast sequences share.
BLen(a, b) == Max(Len(a), Len(b))

\* a == b on Time objects (elementwise); None equals only None.  The value
\* is a single boolean (isbool) or an array of booleans.
TimeEq(a, b) ==
    IF a = None \/ b = None
    THEN [isbool |-> TRUE, v |-> <<a = b>>]
    ELSE [isbool |-> Len(a) = 1 /\ Len(b) = 1,
          v |-> Tuple([i \in 1..BLen(a, b) |-> El(a, i) = El(b, i)])]

\* np.all(a == b)
AllTimesEqual(a, b) == \A i \in 1..Len(TimeEq(a, b).v) : TimeEq(a, b).v[i]

\* np.any(a != b)
AnyTimeDiffers(a, b) == \E i \in 1..Len(TimeEq(a, b).v) : ~TimeEq(a, b).v[i]

(***************************************************************************)
(* Objects: strings, frames and coordinates (sunpy/coordinates/frames.py   *)
(* and astropy's BaseCoordinateFrame).                                     *)
(*                                                                         *)
(* One record shape serves for all of them.  tok /= "" is a Python string  *)
(* (an observer token); tok = "" is a frame instance of the given kind,    *)
(* which is a coordinate when it has data.  An observer is a string or a   *)
(* HeliographicStonyhurst coordinate.  id is the identity of the Python    *)
(* object: 0 for an object no other reference names, so that x is y holds  *)
(* exactly when the ids are equal and not 0.                               *)
(***************************************************************************)
Kinds == {"ICRS", "HCRS", "HME", "HGS", "HGC", "HCC", "HPC",
          "HEE", "GSE", "HCI", "GEI"}

HasObstime(kind) == kind /= "ICRS"

HasObserver(kind) == kind \in {"HCC", "HPC"}

HasEquinox(kind) == kind = "HME"

\* The default of the obstime attribute: J2000.0 for astropy's frames, None
\* for sunpy's.
DefaultObstime(kind) == IF kind \in {"HCRS", "HME"} THEN <<_J2000>> ELSE None

\* The value of an attribute the object does not have.
Nil == [tok |-> "-"]

\* A Python string.
Str(name) ==
    [tok |-> name, kind |-> "str", obstime |-> None, observer |-> Nil,
     equinox |-> None, rep |-> "none", data |-> <<>>, id |-> 0]

\* The default of the observer attribute of Heliocentric and Helioprojective.
DefaultObserver == Str("earth")

\* isinstance(x, BaseCoordinateFrame)
IsFrameInstance(x) == x.tok = ""

\* kind(obstime=..., observer=..., equinox=...): a new frame without data.
\* An attribute the kind does not have is dropped, and one given as None
\* (Nil for the observer) takes its default.
Frame(kind, obstime, observer, equinox) ==
    [tok |-> "",
     kind |-> kind,
     obstime |-> IF ~HasObstime(kind) THEN None
                 ELSE IF obstime = None THEN DefaultObstime(kind)
                 ELSE obstime,
     observer |-> IF ~HasObserver(kind) THEN Nil
                  ELSE IF observer = Nil THEN DefaultObserver
                  ELSE observer,
     equinox |-> IF ~HasEquinox(kind) THEN None
                 ELSE IF equinox = None THEN <<_J2000>>
                 ELSE equinox,
     rep |-> "none",
     data |-> <<>>,
     id |-> 0]

\* frame.realize_frame(data): a new object with the frame's attributes and
\* the given data.
realize_frame(frame, rep, data) ==
    [frame EXCEPT !.rep = rep, !.data = data, !.id = 0]

\* kind(data, obstime=..., observer=...): a new coordinate.
Coord(kind, data, obstime, observer, equinox) ==
    realize_frame(Frame(kind, obstime, observer, equinox), "cartesian", data)

\* frame.replicate(obstime=obstime): a new object.
replicate(frame, obstime) ==
    [frame EXCEPT !.obstime = IF obstime = None THEN DefaultObstime(frame.kind)
                                ELSE obstime,
                  !.id = 0]

\* x is y
Is(x, y) == x.id /= 0 /\ x.id = y.id

\* x == y on observers: strings compare by value, frame instances by
\* identity, and a string never equals a frame instance.
PyEq(x, y) ==
    IF ~IsFrameInstance(x) /\ ~IsFrameInstance(y) THEN x.tok = y.tok
    ELSE IF IsFrameInstance(x) /\ IsFrameInstance(y) THEN Is(x, y)
    ELSE FALSE


\* The observer a string names, at the given obstime, as a new
\* HeliographicStonyhurst coordinate (only "earth" is known).
ResolveObserver(name, obstime) ==
    Coord("HGS", Tuple([i \in 1..Len(obstime) |-> EarthHGS(obstime[i])]),
          obstime, Nil, None)

\* frame.observer: a string observer is resolved lazily, whenever it is read
\* on a frame whose obstime is set, and stays a string while obstime is None.
Observer(frame) ==
    IF ~IsFrameInstance(frame.observer) /\ frame.obstime /= None
    THEN ResolveObserver(frame.observer.tok, frame.obstime)
    ELSE frame.observer

\* .radius, .lon and .lat of one element of a coordinate's data.
Radius(v) == RSqrt(Dot(v, v))

CylRadius(v) == RSqrt(RAdd(RMul(v[1], v[1]), RMul(v[2], v[2])))

\* The angle of cosine x / r and sine y / r.
AngleOf(x, y, r) == Angle(RDiv(x, r), RDiv(y, r))

Lon(v) == AngleOf(v[1], v[2], CylRadius(v))

Lat(v) == AngleOf(CylRadius(v), v[3], Radius(v))

(***************************************************************************)
(* Calls and results.  A call returns a value (ok) or raises (err names    *)
(* the exception); tr is the sequence of the calls made so far, each with  *)
(* its nesting level and, for a transform, the destination frame.          *)
(*                                                                         *)
(* The interpreter's call stack is explicit.  A function that calls        *)
(* transform_to is evaluated with sub, the results of the nested calls     *)
(* that have returned so far, in call order; where it needs one that has   *)
(* not returned yet its evaluation is suspended on that call (call /= Nil) *)
(* and is taken up again when the call has returned.  The progress p of    *)
(* a function is a result: its trace so far and the number n of nested     *)
(* results it has consumed.                                                *)
(***************************************************************************)
Event(lvl, name, to) == [lvl |-> lvl, ev |-> name, to |-> to]

Ok(val, tr) ==
    [ok |-> TRUE, err |-> "", val |-> val, tr |-> tr, n |-> 0, call |-> Nil]

Raise(err, tr) ==
    [ok |-> FALSE, err |-> err, val |-> Nil, tr |-> tr, n |-> 0, call |-> Nil]

\* The transform function called name begins, at nesting level d.
Begin(d, name, to) == Ok(Nil, <<Event(d, name, to)>>)

\* return val
Return(p, val) == [p EXCEPT !.val = val]

\* raise err
Fail(p, err) == [p EXCEPT !.ok = FALSE, !.err = err, !.val = Nil]

\* A call of the kernel or of the ephemeris, which makes no nested call.
Log(p, lvl, name) == [p EXCEPT !.tr = Append(@, Event(lvl, name, Nil))]

\* fn(coord, frame) or fn(coord, obstime), called at nesting level d.
Invocation(fn, coord, frame, obstime, d) ==
    [fn |-> fn, coord |-> coord, frame |-> frame, obstime |-> obstime, d |-> d]

\* The evaluation waits for the nested call to return.
Await(call) ==
    [ok |-> FALSE, err |-> "", val |-> Nil, tr |-> <<>>, n |-> 0, call |-> call]

IsAwait(r) == r.call /= Nil

\* The nested call inv made after progress p: its result, once it has
\* returned.
Nested(sub, p, inv) ==
    IF p.n < Len(sub)
    THEN [sub[p.n + 1] EXCEPT !.tr = p.tr \o @, !.n = p.n + 1]
    ELSE Await(inv)

\* coord.transform_to(frame) inside a function.
transform_to(sub, p, coord, frame, d) ==
    Nested(sub, p, Invocation("transform_to", coord, frame, None, d))

(***************************************************************************)
(* Observer equality and the obstime loopback.                             *)
(***************************************************************************)
\* A Python value that is one boolean.
Bool(b) == [isbool |-> TRUE, v |-> <<b>>]

\* u.allclose(a, b) for two quantities of several components.
Close(a, b) == a = b /\ \A k \in 1..Len(a) : ~IsNaN(a[k])

\* u.allclose(obs_1.lat, obs_2.lat) and the same of .lon and of .radius.
LatClose(obs_1, obs_2) ==
    \A i \in 1..BLen(obs_1.data, obs_2.data) :
        Close(Lat(El(obs_1.data, i)), Lat(El(obs_2.data, i)))

LonClose(obs_1, obs_2) ==
    \A i \in 1..BLen(obs_1.data, obs_2.data) :
        Close(Lon(El(obs_1.data, i)), Lon(El(obs_2.data, i)))

RadiusClose(obs_1, obs_2) ==
    \A i \in 1..BLen(obs_1.data, obs_2.data) :
        Close(<<Radius(El(obs_1.data, i))>>, <<Radius(El(obs_2.data, i))>>)

\* _observers_are_equal without the early return for string_ok: equal
\* strings are rejected like any other strings.
ObserversAreEqualWithoutStrings(obs_1, obs_2, string_ok) ==
    IF ~(IsFrameInstance(obs_1) /\ IsFrameInstance(obs_2))
    THEN Raise("ValueError", <<>>)
    ELSE IF ~LatClose(obs_1, obs_2) THEN Ok(Bool(FALSE), <<>>)
    ELSE IF ~LonClose(obs_1, obs_2) THEN Ok(Bool(FALSE), <<>>)
    ELSE IF ~RadiusClose(obs_1, obs_2) THEN Ok(Bool(FALSE), <<>>)
    ELSE Ok(TimeEq(obs_1.obstime, obs_2.obstime), <<>>)

\* _observers_are_equal without the isinstance check: observers that are
\* not both frame instances are unequal.
ObserversAreEqualWithoutRaise(obs_1, obs_2, string_ok) ==
    IF string_ok /\ PyEq(obs_1, obs_2) THEN Ok(Bool(TRUE), <<>>)
    ELSE IF ~(IsFrameInstance(obs_1) /\ IsFrameInstance(obs_2))
    THEN Ok(Bool(FALSE), <<>>)
    ELSE IF ~LatClose(obs_1, obs_2) THEN Ok(Bool(FALSE), <<>>)
    ELSE IF ~LonClose(obs_1, obs_2) THEN Ok(Bool(FALSE), <<>>)
    ELSE IF ~RadiusClose(obs_1, obs_2) THEN Ok(Bool(FALSE), <<>>)
    ELSE Ok(TimeEq(obs_1.obstime, obs_2.obstime), <<>>)

\* _observers_are_equal(obs_1, obs_2, string_ok).  The value returned is
\* that of the and-chain: False as soon as an operand is false, else the
\* last operand, obs_1.obstime == obs_2.obstime.
_observers_are_equal(obs_1, obs_2, string_ok) ==
    IF string_ok /\ PyEq(obs_1, obs_2) THEN Ok(Bool(TRUE), <<>>)
    ELSE IF ~(IsFrameInstance(obs_1) /\ IsFrameInstance(obs_2))
    THEN Raise("ValueError", <<>>)
    ELSE IF ~LatClose(obs_1, obs_2) THEN Ok(Bool(FALSE), <<>>)
    ELSE IF ~LonClose(obs_1, obs_2) THEN Ok(Bool(FALSE), <<>>)
    ELSE IF ~RadiusClose(obs_1, obs_2) THEN Ok(Bool(FALSE), <<>>)
    ELSE Ok(TimeEq(obs_1.obstime, obs_2.obstime), <<>>)

\* bool(x) is defined for a boolean and for an array of one element.
HasTruth(x) == x.isbool \/ Len(x.v) = 1

Truth(x) == x.v[1]

\* _transform_obstime returning a copy where it should return the frame.
TransformObstimeCopying(sub, p, frame, obstime, d) ==
    IF obstime = None THEN Return(p, frame)
    ELSE IF ~IsFrameInstance(frame) \/ ~HasObstime(frame.kind)
    THEN Fail(p, "AttributeError")
    ELSE IF AllTimesEqual(frame.obstime, obstime)
    THEN Return(p, replicate(frame, obstime))
    ELSE IF frame.obstime /= None
    THEN transform_to(sub, p, frame, replicate(frame, obstime), d)
    ELSE Return(p, replicate(frame, obstime))

\* _transform_obstime without the test of frame.obstime: a frame without
\* obstime is transformed too.
TransformObstimeAlwaysTransforming(sub, p, frame, obstime, d) ==
    IF obstime = None THEN Return(p, frame)
    ELSE IF ~IsFrameInstance(frame) \/ ~HasObstime(frame.kind)
    THEN Fail(p, "AttributeError")
    ELSE IF AllTimesEqual(frame.obstime, obstime) THEN Return(p, frame)
    ELSE transform_to(sub, p, frame, replicate(frame, obstime), d)

\* _transform_obstime that only stamps the new obstime on the frame.
TransformObstimeOnlyStamping(sub, p, frame, obstime, d) ==
    IF obstime = None THEN Return(p, frame)
    ELSE IF ~IsFrameInstance(frame) \/ ~HasObstime(frame.kind)
    THEN Fail(p, "AttributeError")
    ELSE IF AllTimesEqual(frame.obstime, obstime) THEN Return(p, frame)
    ELSE Return(p, replicate(frame, obstime))

\* _transform_obstime(frame, obstime) after progress p; d is the nesting
\* level of the call it makes.
_transform_obstime(sub, p, frame, obstime, d) ==
    IF obstime = None THEN Return(p, frame)
    ELSE IF ~IsFrameInstance(frame) \/ ~HasObstime(frame.kind)
    THEN Fail(p, "AttributeError")
    ELSE IF AllTimesEqual(frame.obstime, obstime) THEN Return(p, frame)
    ELSE IF frame.obstime /= None
    THEN transform_to(sub, p, frame, replicate(frame, obstime), d)
    ELSE Return(p, replicate(frame, obstime))

\* coord.cartesian.transform(matrices), element by element.
Transform(matrices, data) ==
    Tuple([i \in 1..BLen(matrices, data) |->
              MatVec(El(matrices, i), El(data, i))])

Transposed(matrices) ==
    Tuple([i \in 1..Len(matrices) |-> matrix_transpose(matrices[i])])

\* The elementwise product of two sequences of matrices.
Product(a, b) == Tuple([i \in 1..BLen(a, b) |-> MatMul(El(a, i), El(b, i))])

\* frame.realize_frame(newrepr) returned by a transform function.
Realized(p, frame, rep, data) == Return(p, realize_frame(frame, rep, data))

(***************************************************************************)
(* The pairwise transform functions.  Each is called as                    *)
(* fn(coord, frame, d, sub): d is its nesting level and sub the results    *)
(* of the nested calls that have returned.  A function that goes on after  *)
(* a call that can raise or be waited for is written in parts: fn_1 is     *)
(* what fn does with the result of that call, and so on.                   *)
(*                                                                         *)
(* Heliographic Stonyhurst <-> Heliographic Carrington.                    *)
(***************************************************************************)
\* rotation_matrix(-L0(obstime), 'z'), element by element of obstime.
CarringtonMatrices(obstime) ==
    Tuple([i \in 1..Len(obstime) |->
              rotation_matrix(AngleNeg(L0(obstime[i])), 3)])

\* _rotation_matrix_hgs_to_hgc as it would be if a missing obstime meant
\* no rotation instead of an error.
RotationMatrixHgsToHgcUnchecked(p, obstime, d) ==
    Return(Log(p, d, "_rotation_matrix_hgs_to_hgc"),
           IF obstime = None THEN <<IdentityMatrix>>
           ELSE CarringtonMatrices(obstime))

\* _rotation_matrix_hgs_to_hgc(obstime), called at nesting level d.
_rotation_matrix_hgs_to_hgc(p, obstime, d) ==
    IF obstime = None
    THEN Fail(Log(p, d, "_rotation_matrix_hgs_to_hgc"), "ValueError")
    ELSE Return(Log(p, d, "_rotation_matrix_hgs_to_hgc"),
                CarringtonMatrices(obstime))

hgs_to_hgc_2(hgcframe, int_coord, total_matrix) ==
    IF ~total_matrix.ok THEN total_matrix
    ELSE Realized(total_matrix, hgcframe, "cartesian",
                  Transform(total_matrix.val, int_coord.data))

hgs_to_hgc_1(hgcframe, d, int_coord) ==
    IF ~int_coord.ok THEN int_coord
    ELSE hgs_to_hgc_2(hgcframe, int_coord.val,
             _rotation_matrix_hgs_to_hgc(int_coord, int_coord.val.obstime,
                                         d + 1))

hgs_to_hgc(hgscoord, hgcframe, d, sub) ==
    hgs_to_hgc_1(hgcframe, d,
        _transform_obstime(sub, Begin(d, "hgs_to_hgc", hgcframe), hgscoord,
                           hgcframe.obstime, d + 1))

\* hgc_to_hgs rotating by the matrix of hgs_to_hgc as it is.
HgcToHgsWithoutTranspose(hgsframe, int_coord, total_matrix) ==
    IF ~total_matrix.ok THEN total_matrix
    ELSE Realized(total_matrix, hgsframe, "cartesian",
                  Transform(total_matrix.val, int_coord.data))

hgc_to_hgs_2(hgsframe, int_coord, total_matrix) ==
    IF ~total_matrix.ok THEN total_matrix
    ELSE Realized(total_matrix, hgsframe, "cartesian",
                  Transform(Transposed(total_matrix.val), int_coord.data))

hgc_to_hgs_1(hgsframe, d, int_coord) ==
    IF ~int_coord.ok THEN int_coord
    ELSE hgc_to_hgs_2(hgsframe, int_coord.val,
             _rotation_matrix_hgs_to_hgc(int_coord, int_coord.val.obstime,
                                         d + 1))

hgc_to_hgs(hgccoord, hgsframe, d, sub) ==
    hgc_to_hgs_1(hgsframe, d,
        _transform_obstime(sub, Begin(d, "hgc_to_hgs", hgsframe), hgccoord,
                           hgsframe.obstime, d + 1))

(***************************************************************************)
(* Heliocentric <-> Helioprojective.                                       *)
(***************************************************************************)
\* newrepr -/+ CartesianRepresentation(0, 0, distance), distance being the
\* observer's radius; sign is -1 or 1.
ShiftZ(data, observer, sign) ==
    Tuple([i \in 1..BLen(data, observer.data) |->
              VAdd(El(data, i),
                   <<R(0), R(0),
                     RMul(R(sign), Radius(El(observer.data, i)))>>)])

\* hcc_to_hpc permuting the axes before it shifts the origin.
HccToHpcPermutingFirst(heliopframe, d, int_coord) ==
    IF ~int_coord.ok THEN int_coord
    ELSE IF ~IsFrameInstance(Observer(int_coord.val))
    THEN Fail(int_coord, "AttributeError")
    ELSE Realized(Log(int_coord, d + 1, "_matrix_hcc_to_hpc"), heliopframe,
                  "spherical",
                  ShiftZ(Transform(<<_matrix_hcc_to_hpc>>,
                                   int_coord.val.data),
                         Observer(int_coord.val), -1))

hcc_to_hpc_2(heliopframe, d, int_coord) ==
    IF ~int_coord.ok THEN int_coord
    ELSE IF ~IsFrameInstance(Observer(int_coord.val))
    THEN Fail(int_coord, "AttributeError")
    ELSE Realized(Log(int_coord, d + 1, "_matrix_hcc_to_hpc"), heliopframe,
                  "spherical",
                  Transform(<<_matrix_hcc_to_hpc>>,
                            ShiftZ(int_coord.val.data,
                                   Observer(int_coord.val), -1)))

hcc_to_hpc_1(helioccoord, heliopframe, d, sub, observer) ==
    IF ~observer.ok THEN observer
    ELSE hcc_to_hpc_2(heliopframe, d,
             transform_to(sub, observer, helioccoord,
                          Frame("HCC", heliopframe.obstime, observer.val,
                                None),
                          d + 1))

hcc_to_hpc(helioccoord, heliopframe, d, sub) ==
    hcc_to_hpc_1(helioccoord, heliopframe, d, sub,
        _transform_obstime(sub, Begin(d, "hcc_to_hpc", heliopframe),
                           Observer(heliopframe), heliopframe.obstime, d + 1))

\* The radius of the Sun, the unit of length of the model.
RSUN_METERS == 1

\* The distance from an observer at radius D to the solar surface along a
\* line of sight whose cosine with the Sun's direction is x: nan where the
\* line misses the Sun (np.sqrt of a negative number).
SurfaceDistance(x, D) ==
    RSub(RMul(D, x),
         RSqrt(RAdd(RSub(RMul(RMul(D, x), RMul(D, x)), RMul(D, D)),
                    RMul(R(RSUN_METERS), R(RSUN_METERS)))))

\* heliopcoord.calculate_distance(): data that has a distance is returned
\* as it is, angular-only data gets the distance to the solar surface.
calculate_distance(coord) ==
    IF coord.rep /= "unitspherical" THEN coord
    ELSE realize_frame(coord, "spherical",
             Tuple([i \in 1..BLen(coord.data, Observer(coord).data) |->
                       VScale(SurfaceDistance(El(coord.data, i)[1],
                                  Radius(El(Observer(coord).data, i))),
                              El(coord.data, i))]))

hpc_to_hcc_1(heliopcoord, heliocframe, d, sub, observer) ==
    IF ~observer.ok THEN observer
    ELSE transform_to(sub, observer,
             Coord("HCC",
                   ShiftZ(Transform(<<matrix_transpose(_matrix_hcc_to_hpc)>>,
                                    heliopcoord.data),
                          observer.val, 1),
                   heliopcoord.obstime, observer.val, None),
             heliocframe, d + 1)

\* hpc_to_hcc as it would be if angular-only data were refused.
HpcToHccRequiringDistance(heliopcoord, heliocframe, d, sub) ==
    IF ~IsFrameInstance(Observer(heliopcoord))
       \/ heliopcoord.rep = "unitspherical"
    THEN Fail(Begin(d, "hpc_to_hcc", heliocframe), "ConvertError")
    ELSE hpc_to_hcc_1(heliopcoord, heliocframe, d, sub,
             _transform_obstime(sub,
                 Log(Begin(d, "hpc_to_hcc", heliocframe), d + 1,
                     "_matrix_hcc_to_hpc"),
                 Observer(heliopcoord), heliopcoord.obstime, d + 1))

hpc_to_hcc(heliopcoord, heliocframe, d, sub) ==
    IF ~IsFrameInstance(Observer(heliopcoord))
    THEN Fail(Begin(d, "hpc_to_hcc", heliocframe), "ConvertError")
    ELSE hpc_to_hcc_1(calculate_distance(heliopcoord), heliocframe, d, sub,
             _transform_obstime(sub,
                 Log(Begin(d, "hpc_to_hcc", heliocframe), d + 1,
                     "_matrix_hcc_to_hpc"),
                 Observer(heliopcoord), heliopcoord.obstime, d + 1))

(***************************************************************************)
(* Heliocentric <-> Heliographic Stonyhurst.                               *)
(***************************************************************************)
\* _rotation_matrix_hcc_to_hgs(observer.lon, observer.lat), element by
\* element of the observer's data.
ObserverMatrices(observer) ==
    Tuple([i \in 1..Len(observer.data) |->
              _rotation_matrix_hcc_to_hgs(Lon(observer.data[i]),
                                          Lat(observer.data[i]))])

hcc_to_hgs_1(helioccoord, heliogframe, d, sub, observer) ==
    IF ~observer.ok THEN observer
    ELSE _transform_obstime(sub,
             Log(observer, d + 1, "_rotation_matrix_hcc_to_hgs"),
             Coord("HGS",
                   Transform(ObserverMatrices(observer.val),
                             helioccoord.data),
                   helioccoord.obstime, Nil, None),
             heliogframe.obstime, d + 1)

hcc_to_hgs(helioccoord, heliogframe, d, sub) ==
    IF ~IsFrameInstance(Observer(helioccoord))
    THEN Fail(Begin(d, "hcc_to_hgs", heliogframe), "ConvertError")
    ELSE hcc_to_hgs_1(helioccoord, heliogframe, d, sub,
             _transform_obstime(sub, Begin(d, "hcc_to_hgs", heliogframe),
                                Observer(helioccoord), helioccoord.obstime,
                                d + 1))

hgs_to_hcc_2(heliocframe, d, int_coord, observer) ==
    IF ~observer.ok THEN observer
    ELSE Realized(Log(observer, d + 1, "_rotation_matrix_hcc_to_hgs"),
                  heliocframe, "cartesian",
                  Transform(Transposed(ObserverMatrices(observer.val)),
                            int_coord.data))

hgs_to_hcc_1(heliocframe, d, sub, int_coord) ==
    IF ~int_coord.ok THEN int_coord
    ELSE hgs_to_hcc_2(heliocframe, d, int_coord.val,
             _transform_obstime(sub, int_coord, Observer(heliocframe),
                                heliocframe.obstime, d + 1))

hgs_to_hcc(heliogcoord, heliocframe, d, sub) ==
    IF ~IsFrameInstance(Observer(heliocframe))
    THEN Fail(Begin(d, "hgs_to_hcc", heliocframe), "ConvertError")
    ELSE hgs_to_hcc_1(heliocframe, d, sub,
             _transform_obstime(sub, Begin(d, "hgs_to_hcc", heliocframe),
                                heliogcoord, heliocframe.obstime, d + 1))

\* The second call of coord.transform_to(mid).transform_to(to).
Via_1(sub, to, d, mid_coord) ==
    IF ~mid_coord.ok THEN mid_coord
    ELSE transform_to(sub, mid_coord, mid_coord.val, to, d)

\* coord.transform_to(mid).transform_to(to), both calls at nesting level d.
Via(sub, p, coord, mid, to, d) ==
    Via_1(sub, to, d, transform_to(sub, p, coord, mid, d))

\* The truth of
\*   _observers_are_equal(...) and np.all(a.obstime == b.obstime)
\* given the value eq of _observers_are_equal.
SameObstime(eq, from_coo, to_frame) ==
    Truth(eq) /\ AllTimesEqual(from_coo.obstime, to_frame.obstime)

\* hpc_to_hpc, given the outcome eq of _observers_are_equal: the truth of
\* an array of several booleans is a ValueError.
hpc_to_hpc_1(from_coo, to_frame, d, sub, p, eq) ==
    IF ~eq.ok THEN Fail(p, eq.err)
    ELSE IF ~HasTruth(eq.val) THEN Fail(p, "ValueError")
    ELSE IF SameObstime(eq.val, from_coo, to_frame)
    THEN Realized(p, to_frame, from_coo.rep, from_coo.data)
    ELSE IF ~IsFrameInstance(Observer(to_frame)) THEN Fail(p, "ConvertError")
    ELSE IF ~IsFrameInstance(Observer(from_coo)) THEN Fail(p, "ConvertError")
    ELSE Via(sub, p, from_coo, Frame("HGS", to_frame.obstime, Nil, None),
             to_frame, d + 1)

hpc_to_hpc(from_coo, to_frame, d, sub) ==
    hpc_to_hpc_1(from_coo, to_frame, d, sub,
                 Begin(d, "hpc_to_hpc", to_frame),
                 _observers_are_equal(Observer(from_coo), Observer(to_frame),
                                      TRUE))

hcc_to_hcc_1(from_coo, to_frame, d, sub, p, eq) ==
    IF ~eq.ok THEN Fail(p, eq.err)
    ELSE IF ~HasTruth(eq.val) THEN Fail(p, "ValueError")
    ELSE IF SameObstime(eq.val, from_coo, to_frame)
    THEN Realized(p, to_frame, from_coo.rep, from_coo.data)
    ELSE Via(sub, p, from_coo, Frame("HGS", to_frame.obstime, Nil, None),
             to_frame, d + 1)

\* hcc_to_hcc comparing the observers without string_ok.
HccToHccWithoutStringOk(from_coo, to_frame, d, sub) ==
    hcc_to_hcc_1(from_coo, to_frame, d, sub,
                 Begin(d, "hcc_to_hcc", to_frame),
                 _observers_are_equal(Observer(from_coo), Observer(to_frame),
                                      FALSE))

hcc_to_hcc(from_coo, to_frame, d, sub) ==
    hcc_to_hcc_1(from_coo, to_frame, d, sub,
                 Begin(d, "hcc_to_hcc", to_frame),
                 _observers_are_equal(Observer(from_coo), Observer(to_frame),
                                      TRUE))

(***************************************************************************)
(* HCRS <-> Heliographic Stonyhurst (affine), and the loopbacks of the     *)
(* heliographic frames.                                                    *)
(***************************************************************************)
\* The value of an affine transform function: matrices and offsets.
Affine(matrix, offset) == [matrix |-> matrix, offset |-> offset]

\* get_body_barycentric('sun', obstime), element by element.
SunPositions(obstime) ==
    Tuple([i \in 1..Len(obstime) |-> get_body_barycentric("sun", obstime[i])])

\* -offsets
Negated(offsets) == Tuple([i \in 1..Len(offsets) |-> VNeg(offsets[i])])

\* data + sign * offsets, element by element.
Shifted(data, offsets, sign) ==
    Tuple([i \in 1..BLen(data, offsets) |->
              VAdd(El(data, i), VScale(R(sign), El(offsets, i)))])

\* total_matrix of hcrs_to_hgs, element by element of the HGS obstime.
TotalMatrix(obstime) ==
    Tuple([i \in 1..Len(obstime) |-> hcrs_to_hgs_matrix(obstime[i])])

\* offset_icrf of hcrs_to_hgs: sun_pos_icrs - sun_pos_old_icrs if the
\* obstimes differ anywhere, else sun_pos_icrs * 0.
OffsetICRF(old_obstime, obstime) ==
    IF AnyTimeDiffers(old_obstime, obstime)
    THEN Shifted(SunPositions(obstime), SunPositions(old_obstime), -1)
    ELSE Tuple([i \in 1..Len(obstime) |->
                   VScale(R(0), get_body_barycentric("sun", obstime[i]))])

\* offset = offset_icrf.transform(matrix); return matrix, offset
AffineOf(p, matrix, offset_icrf) ==
    Return(p, Affine(matrix, Transform(matrix, offset_icrf)))

hcrs_to_hgs(hcrscoord, hgsframe, d, sub) ==
    IF hgsframe.obstime = None
    THEN Fail(Begin(d, "hcrs_to_hgs", hgsframe), "ValueError")
    ELSE AffineOf(Log(Log(Begin(d, "hcrs_to_hgs", hgsframe),
                          d + 1, "get_body_barycentric"),
                      d + 1, "_rotation_matrix_reprs_to_xz_about_z"),
                  TotalMatrix(hgsframe.obstime),
                  OffsetICRF(hcrscoord.obstime, hgsframe.obstime))

\* The result r of a call made after the calls of trace pre.
After(pre, r) == [r EXCEPT !.tr = pre \o @]

\* hgs_to_hcrs keeping the sign of the offset.
HgsToHcrsKeepingOffset(forward) ==
    IF ~forward.ok THEN forward
    ELSE AffineOf(forward, Transposed(forward.val.matrix), forward.val.offset)

hgs_to_hcrs_1(forward) ==
    IF ~forward.ok THEN forward
    ELSE AffineOf(forward, Transposed(forward.val.matrix),
                  Negated(forward.val.offset))

hgs_to_hcrs(hgscoord, hcrsframe, d, sub) ==
    hgs_to_hcrs_1(After(<<Event(d, "hgs_to_hcrs", hcrsframe)>>,
                        hcrs_to_hgs(hcrsframe, hgscoord, d + 1, sub)))

\* The loopback of a frame whose only attribute is obstime: the data is
\* kept if the obstimes are all equal, else transformed through mid.
Loopback(name, from_coo, to_frame, mid, d, sub) ==
    IF AllTimesEqual(from_coo.obstime, to_frame.obstime)
    THEN Realized(Begin(d, name, to_frame), to_frame, from_coo.rep,
                  from_coo.data)
    ELSE Via(sub, Begin(d, name, to_frame), from_coo, mid, to_frame, d + 1)

\* hgs_to_hgs going through HeliographicCarrington instead of HCRS.
HgsToHgsThroughHgc(from_coo, to_frame, d, sub) ==
    Loopback("hgs_to_hgs", from_coo, to_frame,
             Frame("HGC", from_coo.obstime, Nil, None), d, sub)

hgs_to_hgs(from_coo, to_frame, d, sub) ==
    Loopback("hgs_to_hgs", from_coo, to_frame,
             Frame("HCRS", from_coo.obstime, Nil, None), d, sub)

hgc_to_hgc(from_coo, to_frame, d, sub) ==
    Loopback("hgc_to_hgc", from_coo, to_frame,
             Frame("HGS", from_coo.obstime, Nil, None), d, sub)

(***************************************************************************)
(* astropy's transforms among ICRS, HCRS and HeliocentricMeanEcliptic.     *)
(***************************************************************************)
\* An affine transform applied: the matrices and offsets r.val applied to
\* the data of coord, realized in frame.
ApplyAffine(frame, coord, r) ==
    Realized(r, frame, coord.rep,
             Shifted(Transform(r.val.matrix, coord.data), r.val.offset, 1))

icrs_to_hcrs(icrs_coo, hcrs_frame, d, sub) ==
    Return(Log(Begin(d, "icrs_to_hcrs", hcrs_frame),
               d + 1, "get_body_barycentric"),
           Affine(<<IdentityMatrix>>,
                  Negated(SunPositions(hcrs_frame.obstime))))

hcrs_to_icrs(hcrs_coo, icrs_frame, d, sub) ==
    Return(Log(Begin(d, "hcrs_to_icrs", icrs_frame),
               d + 1, "get_body_barycentric"),
           Affine(<<IdentityMatrix>>, SunPositions(hcrs_coo.obstime)))

hcrs_to_hcrs(from_coo, to_frame, d, sub) ==
    Loopback("hcrs_to_hcrs", from_coo, to_frame,
             Frame("ICRS", None, Nil, None), d, sub)

icrs_to_helioecliptic(from_coo, to_frame, d, sub) ==
    AffineOf(Log(Begin(d, "icrs_to_helioecliptic", to_frame),
                 d + 1, "get_body_barycentric"),
             <<EclipticMatrix(to_frame.equinox)>>,
             Negated(SunPositions(to_frame.obstime)))

helioecliptic_to_icrs(from_coo, to_frame, d, sub) ==
    Return(Log(Begin(d, "helioecliptic_to_icrs", to_frame),
               d + 1, "get_body_barycentric"),
           Affine(<<matrix_transpose(EclipticMatrix(from_coo.equinox))>>,
                  SunPositions(from_coo.obstime)))

hme_to_hme_1(to_frame, d, sub, icrs_coo) ==
    ApplyAffine(to_frame, icrs_coo.val,
                After(icrs_coo.tr,
                      icrs_to_helioecliptic(icrs_coo.val, to_frame, d + 1,
                                            sub)))

\* The merged transform HeliocentricMeanEcliptic -> ICRS ->
\* HeliocentricMeanEcliptic.
hme_to_hme(from_coo, to_frame, d, sub) ==
    hme_to_hme_1(to_frame, d, sub,
        ApplyAffine(Frame("ICRS", None, Nil, None), from_coo,
                    After(<<Event(d, "hme_to_hme", to_frame)>>,
                          helioecliptic_to_icrs(from_coo,
                              Frame("ICRS", None, Nil, None), d + 1, sub))))

(***************************************************************************)
(* The ecliptic family: HEE, GSE, HCI and GEI.                             *)
(***************************************************************************)
\* HCRS(_sun_earth_icrf(obstime), obstime=obstime)
SunEarthHCRS(obstime) ==
    Coord("HCRS",
          Tuple([i \in 1..Len(obstime) |-> _sun_earth_icrf(obstime[i])]),
          obstime, Nil, None)

\* HCRS(_sun_earth_icrf(frame.obstime), ...).transform_to(frame); the
\* ephemeris has no position for the time None.
SunEarthIn(sub, p, frame, d) ==
    IF frame.obstime = None
    THEN Fail(Log(p, d, "get_body_barycentric"), "AttributeError")
    ELSE transform_to(sub, Log(p, d, "get_body_barycentric"),
                      SunEarthHCRS(frame.obstime), frame, d)

\* coord.transform_to(HCRS).transform_to(frame): HCRS is the class, that is
\* a frame of default attributes.
ThroughHCRS(sub, p, coord, frame, d) ==
    Via(sub, p, coord, Frame("HCRS", None, Nil, None), frame, d)

\* frame.realize_frame(coord.cartesian.transform(total_matrix)), given the
\* outcome of the computation of total_matrix.
RealizeTransformed(frame, coord, total_matrix) ==
    IF ~total_matrix.ok THEN total_matrix
    ELSE Realized(total_matrix, frame, "cartesian",
                  Transform(total_matrix.val, coord.data))

\* matrix_product(tilt_matrix, rot_matrix) for one Sun-Earth vector.
TiltAfterRotation(sun_earth_hme, rot_matrix) ==
    MatMul(_rotation_matrix_reprs_to_reprs(MatVec(rot_matrix, sun_earth_hme),
                                           Vec(1, 0, 0)),
           rot_matrix)

_rotation_matrix_hme_to_hee_1(d, sun_earth_hme) ==
    IF ~sun_earth_hme.ok THEN sun_earth_hme
    ELSE Return(Log(Log(sun_earth_hme,
                        d, "_rotation_matrix_reprs_to_xz_about_z"),
                    d, "_rotation_matrix_reprs_to_reprs"),
                Tuple([i \in 1..Len(sun_earth_hme.val.data) |->
                          TiltAfterRotation(sun_earth_hme.val.data[i],
                              _rotation_matrix_reprs_to_xz_about_z(
                                  sun_earth_hme.val.data[i]))]))

\* _rotation_matrix_hme_to_hee(hmeframe), called at nesting level d.
_rotation_matrix_hme_to_hee(sub, p, hmeframe, d) ==
    _rotation_matrix_hme_to_hee_1(d, SunEarthIn(sub, p, hmeframe, d))

hme_to_hee_1(heeframe, d, sub, int_frame, int_coord) ==
    IF ~int_coord.ok THEN int_coord
    ELSE RealizeTransformed(heeframe, int_coord.val,
             _rotation_matrix_hme_to_hee(sub, int_coord, int_frame, d + 1))

hme_to_hee(hmecoord, heeframe, d, sub) ==
    LET int_frame == Frame("HME", heeframe.obstime, Nil, heeframe.obstime)
    IN  hme_to_hee_1(heeframe, d, sub, int_frame,
            ThroughHCRS(sub, Begin(d, "hme_to_hee", heeframe), hmecoord,
                        int_frame, d + 1))

\* int_frame.realize_frame(coord.cartesian.transform(
\*     matrix_transpose(total_matrix))).transform_to(HCRS).transform_to(frame)
BackThroughHCRS(coord, frame, d, sub, int_frame, total_matrix) ==
    IF ~total_matrix.ok THEN total_matrix
    ELSE ThroughHCRS(sub, total_matrix,
             realize_frame(int_frame, "cartesian",
                           Transform(Transposed(total_matrix.val),
                                     coord.data)),
             frame, d + 1)

hee_to_hme(heecoord, hmeframe, d, sub) ==
    LET int_frame == Frame("HME", heecoord.obstime, Nil, heecoord.obstime)
    IN  BackThroughHCRS(heecoord, hmeframe, d, sub, int_frame,
            _rotation_matrix_hme_to_hee(sub, Begin(d, "hee_to_hme", hmeframe),
                                        int_frame, d + 1))

hee_to_hee(from_coo, to_frame, d, sub) ==
    Loopback("hee_to_hee", from_coo, to_frame,
             Frame("HCRS", None, Nil, None), d, sub)

\* The flip as it would be with the factors [-1, 1, 1].
FlipX(data) ==
    Tuple([i \in 1..Len(data) |->
              <<RMul(data[i][1], R(-1)), data[i][2], data[i][3]>>])

\* (v.xyz.T * [-1, -1, 1]).T
FlipXY(data) ==
    Tuple([i \in 1..Len(data) |->
              <<RMul(data[i][1], R(-1)), RMul(data[i][2], R(-1)),
                RMul(data[i][3], R(1))>>])

hee_to_gse_2(gseframe, int_coord, sun_earth_int) ==
    IF ~sun_earth_int.ok THEN sun_earth_int
    ELSE Realized(sun_earth_int, gseframe, "cartesian",
                  FlipXY(Shifted(int_coord.data, sun_earth_int.val.data, -1)))

hee_to_gse_1(gseframe, d, sub, int_frame, int_coord) ==
    IF ~int_coord.ok THEN int_coord
    ELSE hee_to_gse_2(gseframe, int_coord.val,
                      SunEarthIn(sub, int_coord, int_frame, d + 1))

hee_to_gse(heecoord, gseframe, d, sub) ==
    LET int_frame == Frame("HEE", gseframe.obstime, Nil, None)
    IN  hee_to_gse_1(gseframe, d, sub, int_frame,
            transform_to(sub, Begin(d, "hee_to_gse", gseframe), heecoord,
                         int_frame, d + 1))

\* gse_to_hee adding the Sun-Earth vector to the vector as it is.
GseToHeeWithoutFlip(gsecoord, heeframe, d, sub, int_frame, sun_earth_int) ==
    IF ~sun_earth_int.ok THEN sun_earth_int
    ELSE transform_to(sub, sun_earth_int,
             realize_frame(int_frame, "cartesian",
                           Shifted(sun_earth_int.val.data, gsecoord.data, 1)),
             heeframe, d + 1)

gse_to_hee_1(gsecoord, heeframe, d, sub, int_frame, sun_earth_int) ==
    IF ~sun_earth_int.ok THEN sun_earth_int
    ELSE transform_to(sub, sun_earth_int,
             realize_frame(int_frame, "cartesian",
                           Shifted(sun_earth_int.val.data,
                                   FlipXY(gsecoord.data), 1)),
             heeframe, d + 1)

gse_to_hee(gsecoord, heeframe, d, sub) ==
    LET int_frame == Frame("HEE", gsecoord.obstime, Nil, None)
    IN  gse_to_hee_1(gsecoord, heeframe, d, sub, int_frame,
            SunEarthIn(sub, Begin(d, "gse_to_hee", heeframe), int_frame,
                       d + 1))

gse_to_gse(from_coo, to_frame, d, sub) ==
    Loopback("gse_to_gse", from_coo, to_frame,
             Frame("HEE", None, Nil, None), d, sub)

\* z_axis: CartesianRepresentation(0, 0, 1) repeated obstime.size times.
ZAxes(obstime) == Tuple([i \in 1..Len(obstime) |-> Vec(0, 0, 1)])

\* matrix_product(matrix_product(x_to_y_matrix, rot_matrix), detilt_matrix)
\* for one ecliptic pole.
RotationAfterDetilt(ecliptic_pole, detilt_matrix) ==
    MatMul(MatMul(_rotation_matrix_reprs_to_reprs(Vec(1, 0, 0), Vec(0, 1, 0)),
                  _rotation_matrix_reprs_to_xz_about_z(
                      MatVec(detilt_matrix, ecliptic_pole))),
           detilt_matrix)

_rotation_matrix_hme_to_hci_1(d, solar_rot_axis) ==
    IF ~solar_rot_axis.ok THEN solar_rot_axis
    ELSE Return(Log(Log(Log(solar_rot_axis,
                            d, "_rotation_matrix_reprs_to_reprs"),
                        d, "_rotation_matrix_reprs_to_xz_about_z"),
                    d, "_rotation_matrix_reprs_to_reprs"),
                Tuple([i \in 1..Len(solar_rot_axis.val.data) |->
                          RotationAfterDetilt(Vec(0, 0, 1),
                              _rotation_matrix_reprs_to_reprs(
                                  solar_rot_axis.val.data[i],
                                  Vec(0, 0, 1)))]))

\* _rotation_matrix_hme_to_hci(hmeframe), called at nesting level d.
_rotation_matrix_hme_to_hci(sub, p, hmeframe, d) ==
    _rotation_matrix_hme_to_hci_1(d,
        transform_to(sub, p,
                     Coord("HGS", ZAxes(hmeframe.obstime), hmeframe.obstime,
                           Nil, None),
                     hmeframe, d))

hme_to_hci_1(hciframe, d, sub, int_frame, int_coord) ==
    IF ~int_coord.ok THEN int_coord
    ELSE RealizeTransformed(hciframe, int_coord.val,
             _rotation_matrix_hme_to_hci(sub, int_coord, int_frame, d + 1))

hme_to_hci(hmecoord, hciframe, d, sub) ==
    LET int_frame == Frame("HME", hciframe.obstime, Nil, <<_J2000>>)
    IN  hme_to_hci_1(hciframe, d, sub, int_frame,
            ThroughHCRS(sub, Begin(d, "hme_to_hci", hciframe), hmecoord,
                        int_frame, d + 1))

hci_to_hme(hcicoord, hmeframe, d, sub) ==
    LET int_frame == Frame("HME", hcicoord.obstime, Nil, <<_J2000>>)
    IN  BackThroughHCRS(hcicoord, hmeframe, d, sub, int_frame,
            _rotation_matrix_hme_to_hci(sub, Begin(d, "hci_to_hme", hmeframe),
                                        int_frame, d + 1))

hci_to_hci(from_coo, to_frame, d, sub) ==
    Loopback("hci_to_hci", from_coo, to_frame,
             Frame("HCRS", None, Nil, None), d, sub)

hme_to_gei_2(geiframe, d, int_coord, sun_earth_int) ==
    IF ~sun_earth_int.ok THEN sun_earth_int
    ELSE Realized(Log(sun_earth_int, d + 1, "rotation_matrix"), geiframe,
                  "cartesian",
                  Transform(<<rotation_matrix(AngleNeg(_OBLIQUITY_J2000), 1)>>,
                            Shifted(int_coord.data, sun_earth_int.val.data,
                                    -1)))

hme_to_gei_1(geiframe, d, sub, int_frame, int_coord) ==
    IF ~int_coord.ok THEN int_coord
    ELSE hme_to_gei_2(geiframe, d, int_coord.val,
                      SunEarthIn(sub, int_coord, int_frame, d + 1))

hme_to_gei(hmecoord, geiframe, d, sub) ==
    LET int_frame == Frame("HME", geiframe.obstime, Nil, <<_J2000>>)
    IN  hme_to_gei_1(geiframe, d, sub, int_frame,
            ThroughHCRS(sub, Begin(d, "hme_to_gei", geiframe), hmecoord,
                        int_frame, d + 1))

\* The name gsecoord is bound nowhere: evaluating it raises NameError,
\* after the Sun-Earth vector has been computed and before the rotation
\* matrix is.
gei_to_hme_1(sun_earth_int) ==
    IF ~sun_earth_int.ok THEN sun_earth_int
    ELSE Fail(sun_earth_int, "NameError")

gei_to_hme(geicoord, hmeframe, d, sub) ==
    gei_to_hme_1(SunEarthIn(sub, Begin(d, "gei_to_hme", hmeframe),
                            Frame("HME", geicoord.obstime, Nil, <<_J2000>>),
                            d + 1))

gei_to_gei(from_coo, to_frame, d, sub) ==
    Loopback("gei_to_gei", from_coo, to_frame,
             Frame("HCRS", None, Nil, None), d, sub)

(***************************************************************************)
(* The transform graph and transform_to.                                   *)
(***************************************************************************)
Edge(from, to, fn, affine) ==
    [from |-> from, to |-> to, fn |-> fn, affine |-> affine]

\* The transforms the decorators of transformations.py register, and those
\* astropy registers among ICRS, HCRS and HeliocentricMeanEcliptic.
frame_transform_graph ==
    { Edge("HGS", "HGC", "hgs_to_hgc", FALSE),
      Edge("HGC", "HGS", "hgc_to_hgs", FALSE),
      Edge("HCC", "HPC", "hcc_to_hpc", FALSE),
      Edge("HPC", "HCC", "hpc_to_hcc", FALSE),
      Edge("HCC", "HGS", "hcc_to_hgs", FALSE),
      Edge("HGS", "HCC", "hgs_to_hcc", FALSE),
      Edge("HPC", "HPC", "hpc_to_hpc", FALSE),
      Edge("HCRS", "HGS", "hcrs_to_hgs", TRUE),
      Edge("HGS", "HCRS", "hgs_to_hcrs", TRUE),
      Edge("HGS", "HGS", "hgs_to_hgs", FALSE),
      Edge("HGC", "HGC", "hgc_to_hgc", FALSE),
      Edge("HCC", "HCC", "hcc_to_hcc", FALSE),
      Edge("HME", "HEE", "hme_to_hee", FALSE),
      Edge("HEE", "HME", "hee_to_hme", FALSE),
      Edge("HEE", "HEE", "hee_to_hee", FALSE),
      Edge("HEE", "GSE", "hee_to_gse", FALSE),
      Edge("GSE", "HEE", "gse_to_hee", FALSE),
      Edge("GSE", "GSE", "gse_to_gse", FALSE),
      Edge("HME", "HCI", "hme_to_hci", FALSE),
      Edge("HCI", "HME", "hci_to_hme", FALSE),
      Edge("HCI", "HCI", "hci_to_hci", FALSE),
      Edge("HME", "GEI", "hme_to_gei", FALSE),
      Edge("GEI", "HME", "gei_to_hme", FALSE),
      Edge("GEI", "GEI", "gei_to_gei", FALSE),
      Edge("ICRS", "HCRS", "icrs_to_hcrs", TRUE),
      Edge("HCRS", "ICRS", "hcrs_to_icrs", TRUE),
      Edge("HCRS", "HCRS", "hcrs_to_hcrs", FALSE),
      Edge("ICRS", "HME", "icrs_to_helioecliptic", TRUE),
      Edge("HME", "ICRS", "helioecliptic_to_icrs", TRUE),
      Edge("HME", "HME", "hme_to_hme", FALSE) }

HasEdge(a, b) == \E t \in frame_transform_graph : t.from = a /\ t.to = b

EdgeOf(a, b) == CHOOSE t \in frame_transform_graph : t.from = a /\ t.to = b

RECURSIVE FindPath(_, _, _)

\* A shortest sequence of kinds from a to b that visits none of seen;
\* <<>> when there is none.
FindPath(a, b, seen) ==
    IF a = b THEN <<a>>
    ELSE LET nexts == {k \in Kinds \ seen : HasEdge(a, k)}
             rest(k) == FindPath(k, b, seen \cup {k})
             cands == {k \in nexts : rest(k) /= <<>>}
         IN  IF cands = {} THEN <<>>
             ELSE LET k == CHOOSE k \in cands :
                            \A j \in cands : Len(rest(k)) <= Len(rest(j))
                  IN  <<a>> \o rest(k)

\* frame_transform_graph.find_shortest_path(a, b), as the kinds visited.
find_shortest_path ==
    [a \in Kinds, b \in Kinds |->
        IF a = b THEN (IF HasEdge(a, a) THEN <<a, a>> ELSE <<a>>)
        ELSE FindPath(a, b, {a})]

\* The call of the transform function named fn.
CallTransform(fn, coord, frame, d, sub) ==
    CASE fn = "hgs_to_hgc" -> hgs_to_hgc(coord, frame, d, sub)
      [] fn = "hgc_to_hgs" -> hgc_to_hgs(coord, frame, d, sub)
      [] fn = "hcc_to_hpc" -> hcc_to_hpc(coord, frame, d, sub)
      [] fn = "hpc_to_hcc" -> hpc_to_hcc(coord, frame, d, sub)
      [] fn = "hcc_to_hgs" -> hcc_to_hgs(coord, frame, d, sub)
      [] fn = "hgs_to_hcc" -> hgs_to_hcc(coord, frame, d, sub)
      [] fn = "hpc_to_hpc" -> hpc_to_hpc(coord, frame, d, sub)
      [] fn = "hcrs_to_hgs" -> hcrs_to_hgs(coord, frame, d, sub)
      [] fn = "hgs_to_hcrs" -> hgs_to_hcrs(coord, frame, d, sub)
      [] fn = "hgs_to_hgs" -> hgs_to_hgs(coord, frame, d, sub)
      [] fn = "hgc_to_hgc" -> hgc_to_hgc(coord, frame, d, sub)
      [] fn = "hcc_to_hcc" -> hcc_to_hcc(coord, frame, d, sub)
      [] fn = "hme_to_hee" -> hme_to_hee(coord, frame, d, sub)
      [] fn = "hee_to_hme" -> hee_to_hme(coord, frame, d, sub)
      [] fn = "hee_to_hee" -> hee_to_hee(coord, frame, d, sub)
      [] fn = "hee_to_gse" -> hee_to_gse(coord, frame, d, sub)
      [] fn = "gse_to_hee" -> gse_to_hee(coord, frame, d, sub)
      [] fn = "gse_to_gse" -> gse_to_gse(coord, frame, d, sub)
      [] fn = "hme_to_hci" -> hme_to_hci(coord, frame, d, sub)
      [] fn = "hci_to_hme" -> hci_to_hme(coord, frame, d, sub)
      [] fn = "hci_to_hci" -> hci_to_hci(coord, frame, d, sub)
      [] fn = "hme_to_gei" -> hme_to_gei(coord, frame, d, sub)
      [] fn = "gei_to_hme" -> gei_to_hme(coord, frame, d, sub)
      [] fn = "gei_to_gei" -> gei_to_gei(coord, frame, d, sub)
      [] fn = "icrs_to_hcrs" -> icrs_to_hcrs(coord, frame, d, sub)
      [] fn = "hcrs_to_icrs" -> hcrs_to_icrs(coord, frame, d, sub)
      [] fn = "hcrs_to_hcrs" -> hcrs_to_hcrs(coord, frame, d, sub)
      [] fn = "icrs_to_helioecliptic" ->
             icrs_to_helioecliptic(coord, frame, d, sub)
      [] fn = "helioecliptic_to_icrs" ->
             helioecliptic_to_icrs(coord, frame, d, sub)
      [] fn = "hme_to_hme" -> hme_to_hme(coord, frame, d, sub)

\* The outcome r of one transform of the graph.  An affine transform gives
\* matrices and offsets, applied to the data and realized in the frame; a
\* function transform gives the coordinate, which must be of the
\* destination kind.
Applied(t, coord, frame, r) ==
    IF ~r.ok THEN r
    ELSE IF t.affine THEN ApplyAffine(frame, coord, r)
    ELSE IF r.val.kind /= t.to THEN Fail(r, "TypeError")
    ELSE r

\* One transform of the graph applied to a coordinate: a nested call of
\* its transform function.
ApplyTransform(t, coord, frame, d, sub, p) ==
    Applied(t, coord, frame,
            Nested(sub, p, Invocation(t.fn, coord, frame, None, d)))

\* The frame a composite transform builds for a step to the given kind:
\* each attribute is the destination frame's if that has it, else the
\* original coordinate's, else the default.
IntermediateFrame(kind, toframe, fromcoord) ==
    Frame(kind,
          IF HasObstime(toframe.kind) THEN toframe.obstime
          ELSE IF HasObstime(fromcoord.kind) THEN fromcoord.obstime
          ELSE None,
          IF HasObserver(toframe.kind) THEN Observer(toframe)
          ELSE IF HasObserver(fromcoord.kind) THEN Observer(fromcoord)
          ELSE Nil,
          IF HasEquinox(toframe.kind) THEN toframe.equinox
          ELSE IF HasEquinox(fromcoord.kind) THEN fromcoord.equinox
          ELSE None)

RECURSIVE RunPath(_, _, _, _, _, _, _)

\* The composite transform goes on after step i, whose outcome is r.
RunPath_1(path, i, fromcoord, toframe, d, sub, r) ==
    IF ~r.ok THEN r
    ELSE RunPath(path, i + 1, r, fromcoord, toframe, d, sub)

\* The steps i, i+1, ... of the composite transform along path; the value
\* of p is the current coordinate.
RunPath(path, i, p, fromcoord, toframe, d, sub) ==
    IF i >= Len(path) THEN p
    ELSE RunPath_1(path, i, fromcoord, toframe, d, sub,
             ApplyTransform(EdgeOf(path[i], path[i + 1]), p.val,
                            IntermediateFrame(path[i + 1], toframe, fromcoord),
                            d, sub, p))

\* The body of coord.transform_to(frame), called at nesting level d: the
\* composite transform along the shortest path of the graph.
CompositeTransform(coord, frame, d, sub) ==
    IF coord.rep = "none"
    THEN Fail(Begin(d, "transform_to", frame), "ValueError")
    ELSE IF find_shortest_path[coord.kind, frame.kind] = <<>>
    THEN Fail(Begin(d, "transform_to", frame), "ConvertError")
    ELSE RunPath(find_shortest_path[coord.kind, frame.kind], 1,
                 Return(Begin(d, "transform_to", frame), coord),
                 coord, frame, d + 1, sub)

\* The evaluation of the call a, given the results a.sub of its nested
\* calls.
Eval(a) ==
    IF a.fn = "transform_to"
    THEN CompositeTransform(a.coord, a.frame, a.d, a.sub)
    ELSE IF a.fn = "_transform_obstime"
    THEN _transform_obstime(a.sub, Ok(Nil, <<>>), a.coord, a.obstime,
                            a.d + 1)
    ELSE CallTransform(a.fn, a.coord, a.frame, a.d, a.sub)

(***************************************************************************)
(* The transform graph as an object.  _graph maps a frame class to the     *)
(* transforms that leave it: keys are the classes with an entry, edges the *)
(* transforms.  The frame classes are named by their kinds; those of       *)
(* astropy outside Kinds appear in the graph only.                         *)
(***************************************************************************)
\* The name attribute of a frame class.
NameOf(kind) ==
    CASE kind = "ICRS" -> "icrs"
      [] kind = "HCRS" -> "hcrs"
      [] kind = "HME" -> "heliocentricmeanecliptic"
      [] kind = "HGS" -> "heliographic_stonyhurst"
      [] kind = "HGC" -> "heliographic_carrington"
      [] kind = "HCC" -> "heliocentric"
      [] kind = "HPC" -> "helioprojective"
      [] kind = "HEE" -> "heliocentricearthecliptic"
      [] kind = "GSE" -> "geocentricsolarecliptic"
      [] kind = "HCI" -> "heliocentricinertial"
      [] kind = "GEI" -> "geocentricearthequatorial"
      [] kind = "GCRS" -> "gcrs"
      [] kind = "CIRS" -> "cirs"
      [] kind = "FK5" -> "fk5"
      [] kind = "Galactic" -> "galactic"
      [] kind = "Galactocentric" -> "galactocentric"
      [] kind = "Astropy" -> "REPLACE"

\* Pairs of frames astropy registers transforms between, in both
\* directions, besides those of frame_transform_graph above; which of them
\* exist depends on the version of astropy.
AstropyLinks ==
    {<<"ICRS", "FK5">>, <<"FK5", "Galactic">>, <<"ICRS", "Galactocentric">>,
     <<"ICRS", "GCRS">>, <<"GCRS", "HCRS">>, <<"GCRS", "CIRS">>}

LinkEdges(links) ==
    UNION {{Edge(l[1], l[2], "astropy", FALSE),
            Edge(l[2], l[1], "astropy", FALSE)} : l \in links}

\* The graph object that holds the transforms edges.
GraphOf(edges) == [keys |-> {e.from : e \in edges}, edges |-> edges]

\* The registry after import, with the given transforms of astropy.
RegistryWith(links) == GraphOf(frame_transform_graph \cup LinkEdges(links))

\* graph.frame_set: the sources and destinations of _graph.
frame_set(graph) == graph.keys \cup {e.to : e \in graph.edges}

\* graph.get_names()
get_names(graph) == {NameOf(k) : k \in frame_set(graph)}

\* graph.lookup_name(name)
lookup_name(graph, name) == CHOOSE k \in frame_set(graph) : NameOf(k) = name

\* Frames to keep in the transformation graph.
keep_list ==
    {"icrs", "hcrs", "heliocentrictrueecliptic", "heliocentricmeanecliptic",
     "heliographic_stonyhurst", "heliographic_carrington", "heliocentric",
     "helioprojective", "heliocentricearthecliptic",
     "geocentricsolarecliptic", "heliocentricinertial",
     "geocentricearthequatorial", "gcrs", "precessedgeocentric",
     "geocentrictrueecliptic", "geocentricmeanecliptic", "cirs", "altaz",
     "itrs"}

\* deepcopy(heap[id]): a new object of the same content, at the next index
\* of the heap of graph objects.
deepcopy(heap, id) == Append(heap, heap[id])

cull_list(graph) == {name \in get_names(graph) : name \notin keep_list}

cull_frames(graph) == {lookup_name(graph, name) : name \in cull_list(graph)}

\* The loop as it would be without its second part: only the entries of the
\* unwanted frames are deleted.
CulledSourcesOnly(graph, frames) ==
    [keys |-> graph.keys \ frames,
     edges |-> {e \in graph.edges : e.from \notin frames}]

\* The loop over cull_frames: the entry of each unwanted frame is deleted,
\* and so is each transform to it in the entries of the others.
Culled(graph, frames) ==
    [keys |-> graph.keys \ frames,
     edges |-> {e \in graph.edges :
                   e.from \notin frames /\ e.to \notin frames}]

\* _add_astropy_node(graph): the two fake transforms are registered.
_add_astropy_node(graph) ==
    [keys |-> graph.keys \cup {"Astropy", "ICRS"},
     edges |-> graph.edges
               \cup {Edge("Astropy", "ICRS", "fake_transform1", FALSE),
                     Edge("ICRS", "Astropy", "fake_transform2", FALSE)}]

\* make_transform_graph_docs() of a graph: the description of its nodes and
\* of its links, each in the colour of its class of transform.
make_transform_graph_docs(graph) ==
    [nodes |-> {[node |-> k, shape |-> "oval", label |-> NameOf(k),
                 fillcolor |-> ""] : k \in frame_set(graph)},
     links |-> {[from |-> e.from, to |-> e.to,
                 color |-> IF e.affine THEN "affine"
                           ELSE IF e.from = "Astropy" \/ e.to = "Astropy"
                           THEN "#783001"
                           ELSE "function"] : e \in graph.edges}]

sunpy_frames == {"HGS", "HGC", "HCC", "HPC", "HEE", "GSE", "HCI", "GEI"}

\* _tweak_graph(docstr): the Astropy node becomes the box of the other
\* frames, its links black, the nodes of sunpy white and the others cyan.
_tweak_graph(docstr) ==
    [nodes |-> {IF n.node = "Astropy" /\ n.label = "REPLACE"
                THEN [n EXCEPT !.shape = "box3d",
                               !.label = "Other frames in Astropy",
                               !.fillcolor = "lightcyan"]
                ELSE IF n.node \in sunpy_frames
                THEN [n EXCEPT !.fillcolor = "white"]
                ELSE [n EXCEPT !.fillcolor = "lightcyan"]
                : n \in docstr.nodes},
     links |-> {IF <<l.from, l.to>> \in {<<"Astropy", "ICRS">>,
                                          <<"ICRS", "Astropy">>}
                   /\ l.color = "#783001"
                THEN [l EXCEPT !.color = "#000000"]
                ELSE l : l \in docstr.links}]

(***************************************************************************)
(* The values the callers pass in.                                         *)
(***************************************************************************)
\* The scalar times 1..MaxTime and one array of ArrLen times, which are not
\* all the same.
ArrayTime == [i \in 1..ArrLen |-> ((i - 1) % MaxTime) + 1] \o <<>>

Obstimes == {None, ArrayTime} \cup {<<t>> : t \in 1..MaxTime}

\* Data of the shape of an obstime: one vector, or one for each time.
DataFor(obstime, v, w) ==
    IF Len(obstime) > 1
    THEN [i \in 1..Len(obstime) |-> IF i % 2 = 1 THEN v ELSE w] \o <<>>
    ELSE <<v>>

\* An object the caller holds a reference to.
Named(x, id) == [x EXCEPT !.id = id]

\* Observers given as HeliographicStonyhurst coordinates: at each obstime
\* two objects of equal value, and one object at another place.
ObserverAt(t, id) ==
    Named(Coord("HGS", DataFor(t, Vec(3, 0, 0), Vec(0, 3, 0)), t, Nil, None),
          id)

OtherObserver == Named(Coord("HGS", <<Vec(0, 3, 0)>>, <<1>>, Nil, None), 9)

ObserverFrames ==
    UNION {{ObserverAt(t, 10 * Len(t) + t[1]),
            ObserverAt(t, 10 * Len(t) + t[1] + MaxTime)}
           : t \in Obstimes \ {None}} \cup {OtherObserver}

ObserverStrings == {Str("earth"), Str("mars")}

\* The observers of the frames of an obstime: a string stays a string only
\* while the obstime is None; a coordinate is one of that obstime, the one
\* at another place or the first of obstime 1.
ObserversFor(obstime) ==
    IF obstime = None
    THEN ObserverStrings \cup {ObserverAt(<<1>>, 11), OtherObserver}
    ELSE {o \in ObserverFrames : o.obstime = obstime}
         \cup {ObserverAt(<<1>>, 11), OtherObserver}

\* The frames (without data) of a kind.
FramesOf(kind) ==
    IF ~HasObstime(kind) THEN {Frame(kind, None, Nil, None)}
    ELSE IF ~HasObserver(kind)
    THEN {Frame(kind, t, Nil, None) : t \in Obstimes}
    ELSE UNION {{Frame(kind, t, o, None) : o \in ObserversFor(t)}
                : t \in Obstimes}

Frames == UNION {FramesOf(kind) : kind \in Kinds}

\* The coordinate of a frame: the frame with data.
CoordOf(frame) ==
    Named(realize_frame(frame, "cartesian",
                        DataFor(frame.obstime, Vec(1, 2, 2), Vec(2, -1, 2))),
          1)

\* coord.frame: the frame of a coordinate, without its data.
FrameOf(coord) == [coord EXCEPT !.rep = "none", !.data = <<>>, !.id = 0]

\* A Helioprojective coordinate with angular values only: the direction of
\* disk centre, and in an array also one that misses the Sun.
AngularCoordOf(frame) ==
    Named(realize_frame(frame, "unitspherical",
                        DataFor(frame.obstime, Vec(1, 0, 0), Vec(0, 1, 0))),
          1)

\* The vectors the kernel is called with: along the axes and in the XY
\* plane, each with its opposite, and two of one direction.
KernelVectors ==
    {Vec(1, 0, 0), Vec(-1, 0, 0), Vec(0, 1, 0), Vec(0, -1, 0), Vec(0, 3, 0),
     Vec(0, 0, 1), Vec(0, 0, -1), Vec(3, 4, 0), Vec(-3, -4, 0), Vec(4, 3, 0)}

\* The angles the kernel is called with, as <<cos, sin>>.
KernelAngles ==
    {Angle(R(1), R(0)), Angle(R(0), R(1)), Angle(<<3, 5>>, <<4, 5>>),
     Angle(<<4, 5>>, <<-3, 5>>)}

\* The vectors of integers the axes are permuted of.
IntegerVectors ==
    {Vec(x, y, z) : x, y, z \in (0 - MaxCoordinate)..MaxCoordinate}

Coords == {CoordOf(frame) : frame \in Frames}
          \cup {AngularCoordOf(frame) : frame \in FramesOf("HPC")}

(***************************************************************************)
(* The state: the interpreter's call stack, the call the caller made last  *)
(* with its result (Nil until it has returned), and the call before it     *)
(* when the last one transforms its result back.                           *)
(***************************************************************************)
VARIABLES stack, call, res, prev, graphs, module_graph, mk

vars == <<stack, call, res, prev, graphs, module_graph, mk>>

\* The caller of the transforms and its interpreter.
cvars == <<stack, call, res, prev>>

\* The graph objects of the process (graphs[1] is the one astropy made and
\* coordinates transform by), the object the module-level name
\* frame_transform_graph is bound to, and the call of _make_sunpy_graph:
\* how far it is, its local names and what it returns.
gvars == <<graphs, module_graph, mk>>

NoCall == [pc |-> "idle", backup_graph |-> 0, small_graph |-> 0,
           docstr |-> Nil]

Activation(inv) ==
    [fn |-> inv.fn, coord |-> inv.coord, frame |-> inv.frame,
     obstime |-> inv.obstime, d |-> inv.d, sub |-> <<>>]

\* After import the module-level name is bound to the graph of astropy.
Imported(registry) ==
    /\ stack = <<>>
    /\ call = Nil
    /\ res = Nil
    /\ prev = Nil
    /\ graphs = <<registry>>
    /\ module_graph = 1
    /\ mk = NoCall

Init == Imported(RegistryWith(AstropyLinks))

Idle == stack = <<>>

\* The caller makes a call when nothing is running and it holds no result.
Start(inv) ==
    /\ Idle
    /\ call = Nil
    /\ stack' = <<Activation(inv)>>
    /\ call' = inv
    /\ res' = Nil
    /\ UNCHANGED gvars

\* coord.transform_to(frame)
TransformTo(coord, frame) ==
    /\ Start(Invocation("transform_to", coord, frame, None, 0))
    /\ prev' = Nil

\* result.transform_to(coord.frame) on the result of coord.transform_to(...)
TransformBack ==
    /\ Idle
    /\ call /= Nil
    /\ call.fn = "transform_to"
    /\ prev = Nil
    /\ res /= Nil
    /\ res.ok
    /\ stack' = <<Activation(Invocation("transform_to", res.val,
                                        FrameOf(call.coord), None, 0))>>
    /\ call' = Invocation("transform_to", res.val, FrameOf(call.coord),
                          None, 0)
    /\ res' = Nil
    /\ prev' = [call |-> call, res |-> res]
    /\ UNCHANGED gvars

\* A direct call of the transform function a registered transform names.
CallFunction(t, coord, frame) ==
    /\ coord.kind = t.from
    /\ frame.kind = t.to
    /\ Start(Invocation(t.fn, coord, frame, None, 0))
    /\ prev' = Nil

\* _transform_obstime(frame, obstime)
CallTransformObstime(frame, obstime) ==
    /\ Start(Invocation("_transform_obstime", frame, Nil, obstime, 0))
    /\ prev' = Nil

\* _observers_are_equal(obs_1, obs_2, string_ok)
CallObserversAreEqual(obs_1, obs_2, string_ok) ==
    /\ Idle
    /\ call = Nil
    /\ stack' = <<>>
    /\ call' = [fn |-> "_observers_are_equal", coord |-> obs_1,
                frame |-> obs_2, obstime |-> None, d |-> 0,
                string_ok |-> string_ok]
    /\ res' = _observers_are_equal(obs_1, obs_2, string_ok)
    /\ prev' = Nil
    /\ UNCHANGED gvars

\* A direct call of a function of the rotation-matrix kernel, which makes
\* no nested call: args are its arguments and r is its outcome, the
\* matrices it returns.
CallKernel(fn, args, r) ==
    /\ Idle
    /\ call = Nil
    /\ stack' = <<>>
    /\ call' = [fn |-> fn, args |-> args]
    /\ res' = r
    /\ prev' = Nil
    /\ UNCHANGED gvars

\* _rotation_matrix_reprs_to_reprs(A, B)
CallReprsToReprs(A, B) ==
    CallKernel("_rotation_matrix_reprs_to_reprs", <<A, B>>,
               Ok(<<_rotation_matrix_reprs_to_reprs(A, B)>>, <<>>))

\* _rotation_matrix_reprs_to_xz_about_z(A)
CallReprsToXZ(A) ==
    CallKernel("_rotation_matrix_reprs_to_xz_about_z", <<A>>,
               Ok(<<_rotation_matrix_reprs_to_xz_about_z(A)>>, <<>>))

\* _matrix_hcc_to_hpc()
CallMatrixHccToHpc ==
    CallKernel("_matrix_hcc_to_hpc", <<>>, Ok(<<_matrix_hcc_to_hpc>>, <<>>))

\* _rotation_matrix_hcc_to_hgs(longitude, latitude)
CallRotationHccToHgs(longitude, latitude) ==
    CallKernel("_rotation_matrix_hcc_to_hgs", <<longitude, latitude>>,
               Ok(<<_rotation_matrix_hcc_to_hgs(longitude, latitude)>>, <<>>))

\* _rotation_matrix_hgs_to_hgc(obstime)
CallRotationHgsToHgc(obstime) ==
    CallKernel("_rotation_matrix_hgs_to_hgc", <<obstime>>,
               _rotation_matrix_hgs_to_hgc(Ok(Nil, <<>>), obstime, 0))

\* newrepr.transform(_matrix_hcc_to_hpc()) of hcc_to_hpc, on its own.
PermuteToHpc(v) ==
    CallKernel("newrepr.transform(_matrix_hcc_to_hpc())", <<v>>,
               Ok(Transform(<<_matrix_hcc_to_hpc>>, <<v>>), <<>>))

\* heliopcoord.cartesian.transform(matrix_transpose(_matrix_hcc_to_hpc()))
\* of hpc_to_hcc, on its own.
PermuteToHcc(v) ==
    CallKernel("cartesian.transform(matrix_transpose(_matrix_hcc_to_hpc()))",
               <<v>>,
               Ok(Transform(<<matrix_transpose(_matrix_hcc_to_hpc)>>, <<v>>),
                  <<>>))

Top == stack[Len(stack)]

\* The result r handed to the call that is on top of the stack s.
Deliver(s, r) == [s EXCEPT ![Len(s)].sub = Append(@, r)]

\* The call on top of the stack has run up to a nested call, which is
\* pushed (beyond MaxDepth nested calls the interpreter raises
\* RecursionError instead).
Enter(r) ==
    /\ IsAwait(r)
    /\ stack' = IF Len(stack) < MaxDepth
                THEN Append(stack, Activation(r.call))
                ELSE Deliver(stack, Raise("RecursionError", <<>>))
    /\ UNCHANGED <<call, res, prev>>
    /\ UNCHANGED gvars

\* The call on top of the stack has returned or raised: to its caller, or,
\* if it is the call the caller made, as the result.
Leave(r) ==
    /\ ~IsAwait(r)
    /\ IF Len(stack) > 1
       THEN /\ stack' = Deliver(SubSeq(stack, 1, Len(stack) - 1), r)
            /\ res' = res
       ELSE /\ stack' = <<>>
            /\ res' = r
    /\ UNCHANGED <<call, prev>>
    /\ UNCHANGED gvars

\* The interpreter runs the call on top of the stack.
Run(r) == Enter(r) \/ Leave(r)

Step == ~Idle /\ Run(Eval(Top))

\* A call is running.
Running == ~Idle

\* The interpreter goes on with the call that is running.  Step is enabled
\* exactly while a call is running: the call on top of the stack either
\* waits for a nested call, which Enter pushes, or has ended, which Leave
\* delivers.  The first disjunct states that enabling condition by the
\* stack alone; the program has no such step of its own (while a call is
\* running its steps are those of Step), so that the steps of Interpret the
\* program takes are the steps of Step.
Interpret ==
    /\ Running
    /\ \/ stack' = <<>> /\ UNCHANGED <<call, res, prev>> /\ UNCHANGED gvars
       \/ Step

\* The caller drops the result it holds.
Discard ==
    /\ Idle
    /\ call /= Nil
    /\ stack' = <<>>
    /\ call' = Nil
    /\ res' = Nil
    /\ prev' = Nil
    /\ UNCHANGED gvars

(***************************************************************************)
(* _make_sunpy_graph(), statement by statement.                            *)
(***************************************************************************)
At(pc) == mk.pc = pc

Goto(pc) == [mk EXCEPT !.pc = pc]

\* global frame_transform_graph; backup_graph = deepcopy(...)
MakeBackup ==
    /\ At("idle")
    /\ graphs' = deepcopy(graphs, module_graph)
    /\ mk' = [Goto("backup") EXCEPT !.backup_graph = Len(graphs) + 1]
    /\ UNCHANGED <<module_graph, cvars>>

\* small_graph = deepcopy(frame_transform_graph)
MakeSmall ==
    /\ At("backup")
    /\ graphs' = deepcopy(graphs, module_graph)
    /\ mk' = [Goto("small") EXCEPT !.small_graph = Len(graphs) + 1]
    /\ UNCHANGED <<module_graph, cvars>>

\* The loop as it would be if it ran on the graph the module-level name is
\* bound to instead of the copy.
CullRegistry ==
    /\ At("small")
    /\ graphs' = [graphs EXCEPT
                     ![module_graph] = Culled(@, cull_frames(@))]
    /\ mk' = Goto("culled")
    /\ UNCHANGED <<module_graph, cvars>>

\* The unwanted frames are removed from small_graph.
Cull ==
    /\ At("small")
    /\ graphs' = [graphs EXCEPT
                     ![mk.small_graph] = Culled(@, cull_frames(@))]
    /\ mk' = Goto("culled")
    /\ UNCHANGED <<module_graph, cvars>>

\* _add_astropy_node(small_graph)
AddAstropyNode ==
    /\ At("culled")
    /\ graphs' = [graphs EXCEPT ![mk.small_graph] = _add_astropy_node(@)]
    /\ mk' = Goto("added")
    /\ UNCHANGED <<module_graph, cvars>>

\* frame_transform_graph = small_graph
Overwrite ==
    /\ At("added")
    /\ module_graph' = mk.small_graph
    /\ mk' = Goto("overwritten")
    /\ UNCHANGED <<graphs, cvars>>

\* docstr = make_transform_graph_docs(), which reads the module-level name.
Render ==
    /\ At("overwritten")
    /\ mk' = [Goto("rendered") EXCEPT
                 !.docstr = make_transform_graph_docs(graphs[module_graph])]
    /\ UNCHANGED <<graphs, module_graph, cvars>>

\* make_transform_graph_docs() raises: the exception ends the call.
RenderRaises ==
    /\ At("overwritten")
    /\ mk' = Goto("raised")
    /\ UNCHANGED <<graphs, module_graph, cvars>>

\* frame_transform_graph = backup_graph
Restore ==
    /\ At("rendered")
    /\ module_graph' = mk.backup_graph
    /\ mk' = Goto("restored")
    /\ UNCHANGED <<graphs, cvars>>

\* docstr = _tweak_graph(docstr); return docstr
ReturnDocstr ==
    /\ At("restored")
    /\ mk' = [Goto("returned") EXCEPT !.docstr = _tweak_graph(@)]
    /\ UNCHANGED <<graphs, module_graph, cvars>>

\* The call is over and its result dropped: the graph objects nothing
\* refers to any more are collected.
DiscardDocstr ==
    /\ At("returned") \/ At("raised")
    /\ graphs' = IF module_graph = 1 THEN <<graphs[1]>>
                 ELSE <<graphs[1], graphs[module_graph]>>
    /\ module_graph' = IF module_graph = 1 THEN 1 ELSE 2
    /\ mk' = NoCall
    /\ UNCHANGED cvars

MakeSunpyGraph ==
    \/ MakeBackup
    \/ MakeSmall
    \/ Cull
    \/ AddAstropyNode
    \/ Overwrite
    \/ Render
    \/ RenderRaises
    \/ Restore
    \/ ReturnDocstr

\* Nothing is running and the caller holds no result.
Fresh == Idle /\ call = Nil

Next ==
    \/ /\ Fresh
       /\ \E coord \in Coords, frame \in Frames : TransformTo(coord, frame)
    \/ TransformBack
    \/ /\ Fresh
       /\ \E t \in frame_transform_graph :
             \E coord \in {c \in Coords : c.kind = t.from},
                frame \in FramesOf(t.to) : CallFunction(t, coord, frame)
    \/ /\ Fresh
       /\ \E frame \in Coords \cup Frames \cup ObserverStrings,
             obstime \in Obstimes : CallTransformObstime(frame, obstime)
    \/ /\ Fresh
       /\ \E obs_1, obs_2 \in ObserverFrames \cup ObserverStrings,
             string_ok \in BOOLEAN :
             CallObserversAreEqual(obs_1, obs_2, string_ok)
    \/ Step
    \/ Discard
    \/ MakeSunpyGraph
    \/ DiscardDocstr

Spec == Init /\ [][Next]_vars

(***************************************************************************)
(* The program restricted to the calls of one entry point.                 *)
(***************************************************************************)
\* Only _observers_are_equal is called.
NextObserversAreEqual ==
    \/ /\ Fresh
       /\ \E obs_1, obs_2 \in ObserverFrames \cup ObserverStrings,
             string_ok \in BOOLEAN :
             CallObserversAreEqual(obs_1, obs_2, string_ok)
    \/ Discard

SpecObserversAreEqual == Init /\ [][NextObserversAreEqual]_vars

\* Only _transform_obstime is called.
NextTransformObstime ==
    \/ /\ Fresh
       /\ \E frame \in Coords \cup Frames \cup ObserverStrings,
             obstime \in Obstimes : CallTransformObstime(frame, obstime)
    \/ Step
    \/ Discard

SpecTransformObstime == Init /\ [][NextTransformObstime]_vars

\* Only the transform functions are called, each directly.
NextFunctions ==
    \/ /\ Fresh
       /\ \E t \in frame_transform_graph :
             \E coord \in {c \in Coords : c.kind = t.from},
                frame \in FramesOf(t.to) : CallFunction(t, coord, frame)
    \/ Step
    \/ Discard

SpecFunctions == Init /\ [][NextFunctions]_vars

\* Only transform_to is called, and again on its result.
NextTransformTo ==
    \/ /\ Fresh
       /\ \E coord \in Coords, frame \in Frames : TransformTo(coord, frame)
    \/ TransformBack
    \/ Step
    \/ Discard

SpecTransformTo == Init /\ [][NextTransformTo]_vars

\* x has its obstime set and, if it has an observer, a frame instance as
\* its observer.
Resolved(x) ==
    /\ HasObstime(x.kind) => x.obstime /= None
    /\ HasObserver(x.kind) => IsFrameInstance(Observer(x))

\* Only the transform functions are called, each directly, with obstimes
\* that are set and observers that are frame instances; a call that has
\* begun is run on: Python runs a call to its end.
NextResolved ==
    \/ /\ Fresh
       /\ \E t \in frame_transform_graph :
             \E coord \in {c \in Coords : c.kind = t.from /\ Resolved(c)},
                frame \in {f \in FramesOf(t.to) : Resolved(f)} :
                CallFunction(t, coord, frame)
    \/ Step
    \/ Discard

SpecResolved == Init /\ [][NextResolved]_vars /\ WF_vars(Interpret)

\* Only transform_to between HeliocentricEarthEcliptic and
\* GeocentricSolarEcliptic is called, and again on its result.
NextHeeGse ==
    \/ /\ Fresh
       /\ \E coord \in {c \in Coords : c.kind \in {"HEE", "GSE"}},
             frame \in FramesOf("HEE") \cup FramesOf("GSE") :
             TransformTo(coord, frame)
    \/ TransformBack
    \/ Step
    \/ Discard

SpecHeeGse == Init /\ [][NextHeeGse]_vars

\* Only the functions that return rotation matrices are called: those of
\* the kernel, and hcrs_to_hgs and hgs_to_hcrs.
NextMatrices ==
    \/ /\ Fresh
       /\ \E A, B \in KernelVectors : CallReprsToReprs(A, B)
    \/ /\ Fresh
       /\ \E A \in KernelVectors : CallReprsToXZ(A)
    \/ /\ Fresh
       /\ CallMatrixHccToHpc
    \/ /\ Fresh
       /\ \E longitude, latitude \in KernelAngles :
             CallRotationHccToHgs(longitude, latitude)
    \/ /\ Fresh
       /\ \E obstime \in Obstimes : CallRotationHgsToHgc(obstime)
    \/ /\ Fresh
       /\ \E t \in {e \in frame_transform_graph :
                        e.fn \in {"hcrs_to_hgs", "hgs_to_hcrs"}} :
             \E coord \in {c \in Coords : c.kind = t.from},
                frame \in FramesOf(t.to) : CallFunction(t, coord, frame)
    \/ Step
    \/ Discard

SpecMatrices == Init /\ [][NextMatrices]_vars

\* Only the axes of integer vectors are permuted.
NextPermutation ==
    \/ /\ Fresh
       /\ \E v \in IntegerVectors : PermuteToHpc(v)
    \/ /\ Fresh
       /\ \E v \in IntegerVectors : PermuteToHcc(v)
    \/ Discard

SpecPermutation == Init /\ [][NextPermutation]_vars

\* Only _make_sunpy_graph is called, with any of the transforms of astropy
\* registered.
InitMakeSunpyGraph ==
    \E links \in SUBSET AstropyLinks : Imported(RegistryWith(links))

NextMakeSunpyGraph ==
    \/ MakeSunpyGraph
    \/ DiscardDocstr

SpecMakeSunpyGraph == InitMakeSunpyGraph /\ [][NextMakeSunpyGraph]_vars

\* The coordinates and frames of the concurrent calls: two kinds at
\* obstime 1, and three at obstime 2.
ConcurrentCoords ==
    {c \in Coords : c.obstime = <<1>> /\ c.kind \in {"HGS", "HPC"}}

ConcurrentFrames ==
    {f \in Frames : f.obstime = <<2>> /\ f.kind \in {"HGC", "HCC", "HEE"}}

\* One thread calls transform_to while another calls _make_sunpy_graph;
\* their steps interleave in any order.
NextConcurrent ==
    \/ /\ Fresh
       /\ \E coord \in ConcurrentCoords, frame \in ConcurrentFrames :
             TransformTo(coord, frame)
    \/ Step
    \/ Discard
    \/ MakeSunpyGraph
    \/ DiscardDocstr

SpecConcurrent == Init /\ [][NextConcurrent]_vars

(***************************************************************************)
(* The properties.  A call the caller made has returned when nothing is    *)
(* running and the caller holds its result.                                *)
(***************************************************************************)
Returned == stack = <<>> /\ call /= Nil /\ res /= Nil

Called(fn) == Returned /\ call.fn = fn

\* The events of a trace at one nesting level.
EventsAt(tr, lvl) == SelectSeq(tr, LAMBDA e : e.lvl = lvl)

\* Two observers that are frame instances agree in latitude, longitude,
\* radius and, at every element, in obstime.
SamePlaceAndTime(obs_1, obs_2) ==
    /\ LatClose(obs_1, obs_2)
    /\ LonClose(obs_1, obs_2)
    /\ RadiusClose(obs_1, obs_2)
    /\ AllTimesEqual(obs_1.obstime, obs_2.obstime)

BothFrames(obs_1, obs_2) == IsFrameInstance(obs_1) /\ IsFrameInstance(obs_2)

\* C6: called on two frame instances, _observers_are_equal returns one
\* boolean, which is true exactly when latitude, longitude and radius match
\* and the obstimes are equal at every element.
ObserversAreEqualOnFrames ==
    (Called("_observers_are_equal") /\ BothFrames(call.coord, call.frame))
    => /\ res.ok
       /\ res.val.isbool
       /\ Truth(res.val) <=> SamePlaceAndTime(call.coord, call.frame)

\* C7: with string_ok, _observers_are_equal returns True for two strings
\* that are equal, neither of which is a frame instance.
ObserversAreEqualOnTokens ==
    (/\ Called("_observers_are_equal")
     /\ call.string_ok
     /\ ~IsFrameInstance(call.coord)
     /\ ~IsFrameInstance(call.frame)
     /\ call.coord.tok = call.frame.tok)
    => res.ok /\ res.val = Bool(TRUE)

ObserversAreEqualOnTokensWitness ==
    /\ Called("_observers_are_equal")
    /\ call.string_ok
    /\ call.coord = Str("earth")
    /\ call.frame = Str("earth")
    /\ res.ok
    /\ Truth(res.val)

\* C8: without string_ok, _observers_are_equal raises (ValueError) if
\* either observer is a string, and returns nothing.
ObserversAreEqualRejectsTokens ==
    (/\ Called("_observers_are_equal")
     /\ ~call.string_ok
     /\ ~BothFrames(call.coord, call.frame))
    => ~res.ok /\ res.err = "ValueError" /\ res.val = Nil

ObserversAreEqualRejectsTokensWitness ==
    /\ Called("_observers_are_equal")
    /\ ~call.string_ok
    /\ call.coord = Str("earth")
    /\ IsFrameInstance(call.frame)
    /\ ~res.ok
    /\ res.err = "ValueError"

\* _transform_obstime was called on a frame instance that has the obstime
\* attribute.
TransformObstimeCalled ==
    /\ Called("_transform_obstime")
    /\ IsFrameInstance(call.coord)
    /\ HasObstime(call.coord.kind)

\* C3: when obstime is None or every element of frame.obstime equals it,
\* _transform_obstime returns the frame it was given, the same object, and
\* calls no transform.
TransformObstimeNoOp ==
    (\/ Called("_transform_obstime") /\ call.obstime = None
     \/ /\ TransformObstimeCalled
        /\ AllTimesEqual(call.coord.obstime, call.obstime))
    => /\ res.ok
       /\ res.val = call.coord
       /\ res.tr = <<>>

TransformObstimeNoOpWitness ==
    /\ TransformObstimeCalled
    /\ call.obstime = ArrayTime
    /\ call.coord.obstime = ArrayTime
    /\ call.coord.id /= 0
    /\ res.ok
    /\ Is(res.val, call.coord)

\* C4: when frame.obstime is None and obstime is set, _transform_obstime
\* returns a new object that has the obstime given and otherwise the data
\* and the attributes of the frame, and calls no transform.
TransformObstimeStamps ==
    (/\ TransformObstimeCalled
     /\ call.coord.obstime = None
     /\ call.obstime /= None)
    => /\ res.ok
       /\ res.val = [call.coord EXCEPT !.obstime = call.obstime, !.id = 0]
       /\ res.tr = <<>>

TransformObstimeStampsWitness ==
    /\ TransformObstimeCalled
    /\ call.coord.kind = "HPC"
    /\ call.coord.obstime = None
    /\ call.coord.rep /= "none"
    /\ call.obstime = <<2>>
    /\ res.ok
    /\ res.val.obstime = <<2>>
    /\ res.val.data = call.coord.data
    /\ res.val.observer = call.coord.observer

\* _transform_obstime was called with an obstime that is set, on a frame
\* whose obstime is set and differs from it in some element.
TransformObstimeDiffers ==
    /\ TransformObstimeCalled
    /\ call.coord.obstime /= None
    /\ call.obstime /= None
    /\ ~AllTimesEqual(call.coord.obstime, call.obstime)

\* The frame with the new obstime.
Replica == [call.coord EXCEPT !.obstime = call.obstime, !.id = 0]

\* The trace of one frame.transform_to(Replica) that runs at most one
\* transform function, the one from the frame's kind to itself.
OneSameKindTransform(tr) ==
    /\ tr /= <<>>
    /\ tr[1] = Event(1, "transform_to", Replica)
    /\ Len(EventsAt(tr, 1)) = 1
    /\ Len(EventsAt(tr, 2)) <= 1
    /\ \A i \in 1..Len(tr) :
          tr[i].lvl = 2
          => /\ tr[i].ev = EdgeOf(call.coord.kind, call.coord.kind).fn
             /\ tr[i].to = FrameOf(Replica)

\* C5: when frame.obstime and obstime are both set and differ,
\* _transform_obstime makes exactly one call, frame.transform_to of the
\* frame with the new obstime, which runs the transform from the frame's
\* kind to itself; what it returns is of that kind and obstime, and it
\* raises only after that call has begun.
TransformObstimeLoopback ==
    TransformObstimeDiffers
    => /\ OneSameKindTransform(res.tr)
       /\ call.coord.rep /= "none" => Len(EventsAt(res.tr, 2)) = 1
       /\ res.ok => /\ res.val.kind = call.coord.kind
                    /\ res.val.obstime = call.obstime

TransformObstimeLoopbackWitness ==
    /\ TransformObstimeDiffers
    /\ call.coord.kind = "HGS"
    /\ call.coord.obstime = <<1>>
    /\ call.obstime = <<2>>
    /\ res.ok
    /\ Len(res.tr) > 2
    /\ res.tr[2].ev = "hgs_to_hgs"

\* The transform functions from a kind to itself that sunpy defines.
SameKindFunctions ==
    {"hgs_to_hgs", "hgc_to_hgc", "hcc_to_hcc", "hpc_to_hpc",
     "hee_to_hee", "gse_to_gse", "hci_to_hci", "gei_to_gei"}

ObserverFunctions == {"hcc_to_hcc", "hpc_to_hpc"}

\* The observers of the source and of the destination of the call.
FromObserver == Observer(call.coord)

ToObserver == Observer(call.frame)

\* The two observers match: the same object, the same string, or frame
\* instances of the same place and time.
ObserversMatch ==
    \/ PyEq(FromObserver, ToObserver)
    \/ /\ BothFrames(FromObserver, ToObserver)
       /\ SamePlaceAndTime(FromObserver, ToObserver)

ObstimesMatch == AllTimesEqual(call.coord.obstime, call.frame.obstime)

\* The function returned the destination frame with the data of the source
\* and called nothing.
Shortcut ==
    /\ res.ok
    /\ res.val = realize_frame(call.frame, call.coord.rep, call.coord.data)
    /\ res.tr = <<Event(0, call.fn, call.frame)>>

\* C2: a transform function from a kind to itself, called with a
\* destination whose obstime and (for Heliocentric and Helioprojective)
\* observer match the source's, returns the destination frame with the
\* source's data and calls no transform, ephemeris or matrix function.
SameKindShortcut ==
    (/\ Returned
     /\ call.fn \in SameKindFunctions
     /\ ObstimesMatch
     /\ call.fn \in ObserverFunctions => ObserversMatch)
    => Shortcut

\* C9 as stated: hpc_to_hpc and hcc_to_hcc raise whenever the observer of
\* the source or of the destination is a string, the same string on both
\* sides included.
SameKindRejectsTokens ==
    (/\ Returned
     /\ call.fn \in ObserverFunctions
     /\ ~BothFrames(FromObserver, ToObserver))
    => ~res.ok

\* C9: hpc_to_hpc and hcc_to_hcc raise and return nothing whenever the
\* observer of the source or of the destination is a string, unless both
\* are the same string and the obstimes match: then they return the
\* destination frame with the source's data.
SameKindRejectsUnequalTokens ==
    (/\ Returned
     /\ call.fn \in ObserverFunctions
     /\ ~BothFrames(FromObserver, ToObserver))
    => IF PyEq(FromObserver, ToObserver) /\ ObstimesMatch
       THEN Shortcut
       ELSE ~res.ok /\ res.val = Nil

SameKindRejectsUnequalTokensWitness ==
    /\ Returned
    /\ call.fn = "hpc_to_hpc"
    /\ FromObserver = Str("earth")
    /\ IsFrameInstance(ToObserver)
    /\ ~res.ok
    /\ res.err = "ValueError"

\* The calls of transform_to a function made itself.
OwnCalls == SelectSeq(res.tr, LAMBDA e : e.lvl = 1 /\ e.ev = "transform_to")

\* The function went through HeliographicStonyhurst at the obstime of the
\* destination: its first call is transform_to of that frame and its
\* second, which it makes if the first returns, is transform_to of the
\* destination.
Pivot ==
    /\ Len(res.tr) >= 2
    /\ res.tr[2] =
          Event(1, "transform_to", Frame("HGS", call.frame.obstime, Nil, None))
    /\ Len(OwnCalls) \in {1, 2}
    /\ Len(OwnCalls) = 2 => OwnCalls[2].to = call.frame
    /\ res.ok => Len(OwnCalls) = 2 /\ res.val.kind = call.frame.kind

\* C10: hpc_to_hpc and hcc_to_hcc, called with observers that are frame
\* instances, return the destination frame with the source's data if the
\* observers are equal and the obstimes match, and in every other case
\* transform the coordinate to HeliographicStonyhurst at the destination's
\* obstime and the result to the destination frame.
SameKindPivot ==
    (/\ Returned
     /\ call.fn \in ObserverFunctions
     /\ BothFrames(FromObserver, ToObserver))
    => IF ObserversMatch /\ ObstimesMatch THEN Shortcut ELSE Pivot

\* The pairs of kinds sunpy registers a transform for in both directions.
RegisteredPairs ==
    {<<"HGS", "HGC">>, <<"HCC", "HPC">>, <<"HCC", "HGS">>, <<"HCRS", "HGS">>,
     <<"HME", "HEE">>, <<"HEE", "GSE">>, <<"HME", "HCI">>, <<"HME", "GEI">>}

\* The observer a frame of this kind needs is a frame instance.
ObserverResolved(frame) ==
    HasObserver(frame.kind) => IsFrameInstance(Observer(frame))

\* c is coord.transform_to(frame) between the kinds of a registered pair,
\* in either order, with the same obstime, which is set, and the same
\* observer on both sides.
BetweenRegisteredPair(c) ==
    /\ \/ <<c.coord.kind, c.frame.kind>> \in RegisteredPairs
       \/ <<c.frame.kind, c.coord.kind>> \in RegisteredPairs
    /\ c.coord.obstime /= None
    /\ c.coord.obstime = c.frame.obstime
    /\ ObserverResolved(c.coord)
    /\ ObserverResolved(c.frame)
    /\ (HasObserver(c.coord.kind) /\ HasObserver(c.frame.kind))
       => Is(Observer(c.coord), Observer(c.frame))

\* C1: for the kinds A, B of a registered pair, with the same observer and
\* obstime throughout, coord.transform_to(B) returns a coordinate, and
\* transforming that back to the frame of coord returns a coordinate of
\* the vector coord has.
RoundTrip ==
    /\ (Called("transform_to") /\ prev = Nil /\ BetweenRegisteredPair(call))
       => res.ok
    /\ (/\ Called("transform_to")
        /\ prev /= Nil
        /\ BetweenRegisteredPair(prev.call))
       => res.ok /\ res.val.data = prev.call.coord.data

\* hpc_to_hcc was called with helioprojective data of angular values only.
AngularOnly == Called("hpc_to_hcc") /\ call.coord.rep = "unitspherical"

\* The source and the destination have the same observer object and the
\* same obstime, which is set and is the observer's too.
SameObserverAndObstime ==
    /\ Is(FromObserver, ToObserver)
    /\ call.coord.obstime /= None
    /\ call.coord.obstime = FromObserver.obstime
    /\ call.coord.obstime = call.frame.obstime

\* The Heliocentric vectors of the surface points calculate_distance gives
\* for the data of the call.
SurfacePoints ==
    ShiftZ(Transform(<<matrix_transpose(_matrix_hcc_to_hpc)>>,
                     calculate_distance(call.coord).data),
           FromObserver, 1)

HGSFunctions ==
    {"hcrs_to_hgs", "hgs_to_hcrs", "hgs_to_hgc", "hgc_to_hgs", "hcc_to_hgs",
     "hgs_to_hcc", "hgs_to_hgs"}

\* x is a HeliographicStonyhurst coordinate or frame with obstime None.
HgsUnset(x) == x.kind = "HGS" /\ x.obstime = None

\* One of these functions was called with obstime None on the side of
\* HeliographicStonyhurst.
CalledWithHgsUnset ==
    /\ Returned
    /\ call.fn \in HGSFunctions
    /\ HgsUnset(call.coord) \/ HgsUnset(call.frame)

\* The error the functions raise for a missing obstime.
MissingObstimeRaised == ~res.ok /\ res.err = "ValueError" /\ res.val = Nil

\* C12 as stated: each transform function to or from
\* HeliographicStonyhurst raises the missing-obstime error when the
\* HeliographicStonyhurst coordinate or frame it is called with has
\* obstime None.
HgsTransformsRejectUnsetObstime == CalledWithHgsUnset => MissingObstimeRaised

\* The calls whose rotation is left without an obstime: hcrs_to_hgs and
\* hgs_to_hcrs always, hgs_to_hgc and hgc_to_hgs if the other side has
\* none to stamp or rotate at, hgs_to_hgs if only one side has one.
ObstimeNeeded ==
    CASE call.fn \in {"hcrs_to_hgs", "hgs_to_hcrs"} -> TRUE
      [] call.fn \in {"hgs_to_hgc", "hgc_to_hgs"} ->
            call.coord.obstime = None /\ call.frame.obstime = None
      [] call.fn = "hgs_to_hgs" -> call.coord.obstime /= call.frame.obstime
      [] OTHER -> FALSE

\* C12 as the code has it: called with obstime None on the side of
\* HeliographicStonyhurst, hcrs_to_hgs and hgs_to_hcrs raise the
\* missing-obstime error, hgs_to_hgc and hgc_to_hgs raise it only if the
\* other side has no obstime either, hgs_to_hgs raises it only if the other
\* side has one, and hcc_to_hgs and hgs_to_hcc never raise it; where it is
\* not raised and the observer is a frame instance the function returns.
HgsTransformsNeedObstime ==
    CalledWithHgsUnset
    => IF ObstimeNeeded THEN MissingObstimeRaised
       ELSE /\ ~MissingObstimeRaised
            /\ BothFrames(FromObserver, ToObserver) => res.ok

HgsTransformsNeedObstimeWitness ==
    /\ CalledWithHgsUnset
    /\ call.fn = "hgs_to_hgc"
    /\ ObstimeNeeded
    /\ MissingObstimeRaised


\* The observer a transform function takes the geometry from: the one of
\* the Heliocentric or Helioprojective side it converts at.
ReliedObserver ==
    IF call.fn \in {"hpc_to_hcc", "hcc_to_hgs"} THEN FromObserver
    ELSE ToObserver

\* C13: hcc_to_hpc, hpc_to_hcc, hcc_to_hgs and hgs_to_hcc, called with an
\* observer that is a string where they take the geometry from, raise
\* ConvertError and fail in no other way.
UnresolvedObserverReported ==
    (/\ Returned
     /\ call.fn \in {"hcc_to_hpc", "hpc_to_hcc", "hcc_to_hgs", "hgs_to_hcc"}
     /\ ~IsFrameInstance(ReliedObserver))
    => ~res.ok /\ res.err = "ConvertError"

\* C14: during a call of _make_sunpy_graph and after it the module-level
\* name frame_transform_graph stays bound to the graph object astropy made,
\* and the nodes and edges of that object stay as they are.
RegistryUntouched == [][module_graph' = 1 /\ graphs'[1] = graphs[1]]_vars

\* The graph as it was when _make_sunpy_graph was called.
OriginalGraph == graphs[mk.backup_graph]

KeptKinds == {k \in frame_set(OriginalGraph) : NameOf(k) \in keep_list}

\* The nodes and links of the description the call made.
Nodes == {n.node : n \in mk.docstr.nodes}

Links == {<<l.from, l.to>> : l \in mk.docstr.links}

\* C15: the description _make_sunpy_graph renders has as nodes exactly the
\* kinds of the original graph whose names are in keep_list and the
\* placeholder; no link from or to another kind; every transform of the
\* original graph between two kept kinds as a link; and the placeholder
\* linked to ICRS in both directions and to nothing else.
PrunedGraphContent ==
    (At("rendered") \/ At("restored") \/ At("returned"))
    => /\ Nodes = KeptKinds \cup {"Astropy"}
       /\ \A l \in Links : l[1] \in Nodes /\ l[2] \in Nodes
       /\ \A e \in OriginalGraph.edges :
             (e.from \in KeptKinds /\ e.to \in KeptKinds)
             => <<e.from, e.to>> \in Links
       /\ {l \in Links : l[1] = "Astropy" \/ l[2] = "Astropy"}
          = {<<"Astropy", "ICRS">>, <<"ICRS", "Astropy">>}

PrunedGraphContentWitness ==
    /\ At("returned")
    /\ {"FK5", "Galactic", "GCRS"} \subseteq frame_set(OriginalGraph)
    /\ "GCRS" \in Nodes
    /\ "FK5" \notin Nodes

\* The graph coordinates transform by, as astropy made it.
Registry == RegistryWith(AstropyLinks)

CoordinateFunctions == {t.fn : t \in {e \in frame_transform_graph : ~e.affine}}

\* C17: a transform function that returns a coordinate returns one of the
\* kind, the obstime and (where the kind has one) the observer of the
\* destination frame it was called with.
RealizedInDestination ==
    (Returned /\ call.fn \in CoordinateFunctions /\ res.ok)
    => /\ res.val.kind = call.frame.kind
       /\ res.val.obstime = call.frame.obstime
       /\ HasObserver(call.frame.kind)
          => res.val.observer = call.frame.observer

\* hee_to_gse was called with a destination of the obstime of the
\* coordinate, which is set.
HeeToGseAtOneObstime ==
    /\ Called("hee_to_gse")
    /\ call.coord.obstime /= None
    /\ call.coord.obstime = call.frame.obstime

\* The data of the coordinate, one vector for each time of its obstime.
CallData ==
    Tuple([i \in 1..Len(call.coord.obstime) |-> El(call.coord.data, i)])

\* C18 as stated: for a destination at the obstime of the coordinate,
\* hee_to_gse returns the vector of the coordinate with X and Y negated and
\* Z unchanged.
HeeToGseNegatesXY ==
    HeeToGseAtOneObstime
    => res.ok /\ res.val.kind = "GSE" /\ res.val.data = FlipXY(CallData)

\* The distance from the Sun to the Earth at time t.
SunEarthDistance(t) == Radius(_sun_earth_icrf(t))

\* C18 as the code has it: for a destination at the obstime of the
\* coordinate, hee_to_gse returns Y negated, Z unchanged, and as X the
\* distance from the Sun to the Earth at that obstime minus the X of the
\* coordinate: X and Y are negated in the vector from the Earth to the
\* object.
HeeToGseNegatesEarthObjectXY ==
    HeeToGseAtOneObstime
    => /\ res.ok
       /\ res.val.kind = "GSE"
       /\ res.val.data =
             Tuple([i \in 1..Len(CallData) |->
                       <<RSub(SunEarthDistance(call.coord.obstime[i]),
                              CallData[i][1]),
                         RNeg(CallData[i][2]),
                         CallData[i][3]>>])

HeeToGseNegatesEarthObjectXYWitness ==
    /\ HeeToGseAtOneObstime
    /\ call.coord.data = <<Vec(1, 2, 2)>>
    /\ res.ok
    /\ res.val.data = <<Vec(4, -2, 2)>>

\* _rotation_matrix_reprs_to_reprs was called with the vectors A and B.
ReprsToReprs(A, B) ==
    Called("_rotation_matrix_reprs_to_reprs") /\ call.args = <<A, B>>

\* M * transpose(M) = I
Orthonormal(M) == MatMul(M, matrix_transpose(M)) = IdentityMatrix

\* C19: _rotation_matrix_reprs_to_reprs(V, V) returns the identity matrix,
\* and _rotation_matrix_reprs_to_reprs(V, -V) returns a rotation matrix
\* without nan that takes V to -V, for every vector V that is not zero.
DegenerateRotation ==
    \A V \in KernelVectors :
       /\ ReprsToReprs(V, V) => res.ok /\ res.val = <<IdentityMatrix>>
       /\ ReprsToReprs(V, VNeg(V))
          => /\ res.ok
             /\ MIsFinite(res.val[1])
             /\ Orthonormal(res.val[1])
             /\ MatVec(res.val[1], V) = VNeg(V)

\* The matrices a function of SpecMatrices returned.
Matrices ==
    IF call.fn \in {"hcrs_to_hgs", "hgs_to_hcrs"} THEN res.val.matrix
    ELSE res.val

\* C20: every matrix returned by _matrix_hcc_to_hpc,
\* _rotation_matrix_hcc_to_hgs, _rotation_matrix_hgs_to_hgc,
\* _rotation_matrix_reprs_to_reprs and _rotation_matrix_reprs_to_xz_about_z,
\* and every total matrix of hcrs_to_hgs and hgs_to_hcrs, gives the identity
\* when multiplied by its transpose.
MatricesOrthonormal ==
    (Returned /\ res.ok)
    => \A i \in 1..Len(Matrices) : Orthonormal(Matrices[i])

\* The same for the calls of the two vector functions whose vectors are
\* not parallel (for _rotation_matrix_reprs_to_xz_about_z: the vector
\* without its Z component and the X axis).
NotParallel ==
    CASE call.fn = "_rotation_matrix_reprs_to_reprs" ->
            Cross(call.args[1], call.args[2]) /= Vec(0, 0, 0)
      [] call.fn = "_rotation_matrix_reprs_to_xz_about_z" ->
            call.args[1][2] /= R(0)
      [] OTHER -> TRUE

MatricesOrthonormalUnlessParallel ==
    (Returned /\ res.ok /\ NotParallel)
    => \A i \in 1..Len(Matrices) : Orthonormal(Matrices[i])

\* The Sun-Earth vector at the i-th time of the destination of the call, in
\* the axes the i-th returned matrix rotates to.
EarthRotated(i) ==
    MatVec(res.val.matrix[i], _sun_earth_icrf(call.frame.obstime[i]))

\* C21: the matrix hcrs_to_hgs returns for a destination obstime T takes the
\* Sun-Earth vector at T to a vector whose Y component is zero and whose X
\* component is positive: the Earth is at Stonyhurst longitude 0.
EarthAtLongitudeZero ==
    (Called("hcrs_to_hgs") /\ res.ok)
    => \A i \in 1..Len(call.frame.obstime) :
          /\ EarthRotated(i)[2] = R(0)
          /\ ~IsNaN(EarthRotated(i)[1])
          /\ EarthRotated(i)[1][1] > 0

EarthAtLongitudeZeroWitness ==
    /\ Called("hcrs_to_hgs")
    /\ res.ok
    /\ Len(call.frame.obstime) = 1
    /\ call.coord.obstime /= call.frame.obstime
    /\ EarthRotated(1)[1][1] > 0

\* The Sun-Earth vector at time t in the axes of HeliocentricMeanEcliptic
\* of equinox J2000.
SunEarthHME(t) == MatVec(EclipticMatrix(<<_J2000>>), _sun_earth_icrf(t))

\* C22: gei_to_hme, called with a GeocentricEarthEquatorial coordinate whose
\* obstime is set, returns a HeliocentricMeanEcliptic coordinate; for a
\* destination at the obstime of the coordinate its vector is the
\* coordinate's vector rotated by +obliquity about X plus the Sun-Earth
\* vector at that obstime.
GeiToHmeConverts ==
    (Called("gei_to_hme") /\ call.coord.obstime /= None)
    => /\ res.ok
       /\ res.val.kind = "HME"
       /\ res.val.obstime = call.frame.obstime
       /\ \A i \in 1..Len(call.coord.obstime) :
             call.frame.obstime = call.coord.obstime
             => El(res.val.data, i) =
                   VAdd(MatVec(rotation_matrix(_OBLIQUITY_J2000, 1),
                               El(call.coord.data, i)),
                        SunEarthHME(call.coord.obstime[i]))

\* C23: the matrix of _matrix_hcc_to_hpc takes every vector (x, y, z) of
\* integers to (-z, x, y), and its transpose takes (-z, x, y) back to
\* (x, y, z).
AxisPermutation ==
    /\ Called("newrepr.transform(_matrix_hcc_to_hpc())")
       => res.val = <<<<RNeg(call.args[1][3]), call.args[1][1],
                        call.args[1][2]>>>>
    /\ Called("cartesian.transform(matrix_transpose(_matrix_hcc_to_hpc()))")
       => /\ call.args[1] = <<RNeg(res.val[1][3]), res.val[1][1],
                               res.val[1][2]>>
          /\ Transform(<<_matrix_hcc_to_hpc>>, res.val) = call.args

AxisPermutationWitness ==
    /\ Called("cartesian.transform(matrix_transpose(_matrix_hcc_to_hpc()))")
    /\ call.args[1] = Vec(-2, 1, -1)
    /\ res.val = <<Vec(1, -1, 2)>>

\* The calls the function made itself, in order.
OwnEvents == EventsAt(res.tr, 1)

\* The observer of the destination, as _transform_obstime returns it for
\* the obstime of the destination.
Retimed ==
    IF call.frame.obstime = None
       \/ AllTimesEqual(ToObserver.obstime, call.frame.obstime)
    THEN <<>>
    ELSE <<Event(1, "transform_to",
                 replicate(ToObserver, call.frame.obstime))>>

\* C24: hcc_to_hpc first retimes the observer of the destination to the
\* obstime of the destination, then transforms the source to Heliocentric
\* of that obstime and the retimed observer, then subtracts (0, 0, d), d
\* being the radius of the retimed observer, and then permutes the axes:
\* for a source of the observer and obstime of the destination the vector
\* (x, y, z) becomes (d - z, x, y).
HccToHpcOrder ==
    (Called("hcc_to_hpc") /\ res.ok)
    => /\ Len(OwnEvents) = Len(Retimed) + 2
       /\ SubSeq(OwnEvents, 1, Len(Retimed)) = Retimed
       /\ LET loopback == OwnEvents[Len(Retimed) + 1]
          IN  /\ loopback.ev = "transform_to"
              /\ loopback.to.kind = "HCC"
              /\ loopback.to.obstime = call.frame.obstime
              /\ Retimed = <<>> => loopback.to.observer = ToObserver
              /\ call.frame.obstime /= None
                 => AllTimesEqual(loopback.to.observer.obstime,
                                  call.frame.obstime)
       /\ OwnEvents[Len(OwnEvents)].ev = "_matrix_hcc_to_hpc"
       /\ SameObserverAndObstime
          => \A i \in 1..Len(res.val.data) :
                res.val.data[i] =
                   <<RSub(Radius(El(ToObserver.data, i)),
                          El(call.coord.data, i)[3]),
                     El(call.coord.data, i)[1], El(call.coord.data, i)[2]>>

HccToHpcOrderWitness ==
    /\ Called("hcc_to_hpc")
    /\ res.ok
    /\ SameObserverAndObstime
    /\ Len(OwnEvents) = 2
    /\ Radius(El(ToObserver.data, 1)) /= R(0)
    /\ El(call.coord.data, 1)[3] /= R(0)

\* hcc_to_hpc returned after it retimed the observer of the destination.
HccToHpcRetimed ==
    Called("hcc_to_hpc") /\ res.ok /\ Len(OwnEvents) = 3

\* What hcrs_to_hgs returns for the two frames of a call of hgs_to_hcrs.
Forward == hcrs_to_hgs(call.frame, call.coord, 0, <<>>).val

\* The vectors data after the affine transform a.
AffineApplied(a, data) == Shifted(Transform(a.matrix, data), a.offset, 1)

Zero(offsets) == \A i \in 1..Len(offsets) : offsets[i] = Vec(0, 0, 0)

Between(c, a, b) ==
    /\ c.fn = "transform_to"
    /\ c.coord.kind = a
    /\ c.frame.kind = b
    /\ c.coord.obstime /= None
    /\ c.frame.obstime /= None

\* The Sun-Earth vector in HeliocentricEarthEcliptic at each time of
\* obstime: it lies on the X axis.
SunEarthHEE(obstime) ==
    Tuple([i \in 1..Len(obstime) |->
              <<SunEarthDistance(obstime[i]), R(0), R(0)>>])

\* The names of the calls the transform function made itself, the one
\* transform of the path of the call.
StepEvents == [i \in 1..Len(EventsAt(res.tr, 2)) |-> EventsAt(res.tr, 2)[i].ev]

\* C26: hee_to_gse brings the coordinate to HeliocentricEarthEcliptic at
\* the obstime of the destination, subtracts the Sun-Earth vector at that
\* obstime and negates X and Y of the difference; gse_to_hee negates X
\* and Y of the vector, adds the Sun-Earth vector at the obstime of the
\* coordinate and transforms the sum to the destination; at one obstime
\* the second takes the result of the first back to the vector.
HeeGseGeometry ==
    /\ (Called("transform_to") /\ prev = Nil /\ Between(call, "HEE", "GSE"))
       => /\ res.ok
          /\ res.tr[2].ev = "hee_to_gse"
          /\ res.tr[3] =
                Event(2, "transform_to",
                      Frame("HEE", call.frame.obstime, Nil, None))
          /\ StepEvents =
                <<"transform_to", "get_body_barycentric", "transform_to">>
          /\ call.coord.obstime = call.frame.obstime
             => res.val.data =
                   FlipXY(Shifted(CallData, SunEarthHEE(call.frame.obstime),
                                  -1))
    /\ (Called("transform_to") /\ prev = Nil /\ Between(call, "GSE", "HEE"))
       => /\ res.ok
          /\ res.tr[2].ev = "gse_to_hee"
          /\ StepEvents =
                <<"get_body_barycentric", "transform_to", "transform_to">>
          /\ EventsAt(res.tr, 2)[2].to =
                Frame("HEE", call.coord.obstime, Nil, None)
          /\ EventsAt(res.tr, 2)[3].to = call.frame
          /\ call.coord.obstime = call.frame.obstime
             => res.val.data =
                   Shifted(SunEarthHEE(call.coord.obstime), FlipXY(CallData),
                           1)
    /\ (/\ Called("transform_to")
        /\ prev /= Nil
        /\ Between(prev.call, "HEE", "GSE")
        /\ prev.call.coord.obstime = prev.call.frame.obstime)
       => res.ok /\ res.val.data = prev.call.coord.data

HeeGseGeometryWitness ==
    /\ Called("transform_to")
    /\ prev /= Nil
    /\ Between(prev.call, "HEE", "GSE")
    /\ prev.call.coord.obstime = prev.call.frame.obstime
    /\ res.ok
    /\ res.val.kind = "HEE"
    /\ prev.res.val.data /= res.val.data

\* The transforms from a kind to itself whose frames have the obstime as
\* their only attribute.
LoopbackFunctions ==
    {"hgs_to_hgs", "hgc_to_hgc", "hee_to_hee", "gse_to_gse", "hci_to_hci",
     "gei_to_gei"}

\* The frame the function goes through when the obstimes differ.
PivotOf(fn) ==
    CASE fn = "hgs_to_hgs" -> Frame("HCRS", call.coord.obstime, Nil, None)
      [] fn = "hgc_to_hgc" -> Frame("HGS", call.coord.obstime, Nil, None)
      [] fn = "gse_to_gse" -> Frame("HEE", None, Nil, None)
      [] OTHER -> Frame("HCRS", None, Nil, None)

\* Every frame a call of the chain was made with has its obstime set.
ObstimesSet ==
    \A i \in 1..Len(res.tr) :
       (res.tr[i].to /= Nil /\ HasObstime(res.tr[i].to.kind))
       => res.tr[i].to.obstime /= None

\* The call of fn with obstimes that are both set and differ goes through
\* the pivot and then to the destination, with the obstime set on every
\* frame on the way, and returns a coordinate at the obstime of the
\* destination.
PivotsWhenTimesDiffer(fn) ==
    (/\ Called(fn)
     /\ call.coord.obstime /= None
     /\ call.frame.obstime /= None
     /\ ~AllTimesEqual(call.coord.obstime, call.frame.obstime))
    => /\ Len(OwnCalls) >= 1
       /\ OwnCalls[1].to = PivotOf(fn)
       /\ res.ok
       /\ Len(OwnCalls) = 2
       /\ OwnCalls[2].to = call.frame
       /\ ObstimesSet
       /\ res.val.kind = call.frame.kind
       /\ res.val.obstime = call.frame.obstime

\* C27: every transform from a kind to itself, called with obstimes that
\* are both set and differ, goes through its pivot (hgs_to_hgs: HCRS at the
\* obstime of the source; hgc_to_hgc: HeliographicStonyhurst at the obstime
\* of the source; hee_to_hee, hci_to_hci, gei_to_gei: HCRS; gse_to_gse:
\* HeliocentricEarthEcliptic) and then to the destination, every frame on
\* the way has its obstime set, and the call returns a coordinate at the
\* obstime of the destination.
DifferentTimePivot == \A fn \in LoopbackFunctions : PivotsWhenTimesDiffer(fn)

\* The same of the transforms whose pivot does not depend on the obstime
\* of HeliocentricEarthEcliptic or on gei_to_hme.
DifferentTimePivotBesidesGseGei ==
    \A fn \in LoopbackFunctions \ {"gse_to_gse", "gei_to_gei"} :
       PivotsWhenTimesDiffer(fn)

\* hgs_to_hgc or hgc_to_hgs was called.
CarringtonCall == Returned /\ call.fn \in {"hgs_to_hgc", "hgc_to_hgs"}

\* The source is retimed by a transform: both obstimes are set and differ.
RetimeNeeded ==
    /\ call.coord.obstime /= None
    /\ call.frame.obstime /= None
    /\ ~AllTimesEqual(call.coord.obstime, call.frame.obstime)

\* The obstime of the source after _transform_obstime.
RetimedObstime ==
    IF call.frame.obstime = None THEN call.coord.obstime
    ELSE call.frame.obstime

\* HeliographicStonyhurst vectors of the obstime from at the obstime to:
\* through HCRS at the obstime from, as hgs_to_hgs goes.
HgsRetimed(data, from, to) ==
    AffineApplied(
        hcrs_to_hgs(Frame("HCRS", from, Nil, None),
                    Frame("HGS", to, Nil, None), 0, <<>>).val,
        AffineApplied(
            hgs_to_hcrs(Frame("HGS", from, Nil, None),
                        Frame("HCRS", from, Nil, None), 0, <<>>).val,
            data))

\* The vectors of the source after _transform_obstime, in the axes of
\* HeliographicStonyhurst at the retimed obstime.
RetimedHgs ==
    LET hgs == IF call.fn = "hgs_to_hgc" THEN call.coord.data
               ELSE Transform(Transposed(
                                  CarringtonMatrices(call.coord.obstime)),
                              call.coord.data)
    IN  HgsRetimed(hgs, call.coord.obstime, call.frame.obstime)

\* C28: hgs_to_hgc and hgc_to_hgs first retime the source to the obstime
\* of the destination and then rotate it once about Z by the Carrington
\* angle at the obstime of the retimed coordinate, hgc_to_hgs by the
\* transposed matrix; if that obstime is None the call raises the
\* missing-obstime error and returns nothing.
CarringtonOrder ==
    CarringtonCall
    => /\ RetimeNeeded
          => /\ Len(OwnEvents) >= 1
             /\ OwnEvents[1] =
                   Event(1, "transform_to",
                         replicate(call.coord, call.frame.obstime))
       /\ RetimedObstime = None
          => /\ MissingObstimeRaised
             /\ OwnEvents = <<Event(1, "_rotation_matrix_hgs_to_hgc", Nil)>>
       /\ RetimedObstime /= None
          => /\ res.ok
             /\ Len(OwnEvents) = IF RetimeNeeded THEN 2 ELSE 1
             /\ OwnEvents[Len(OwnEvents)] =
                   Event(1, "_rotation_matrix_hgs_to_hgc", Nil)
             /\ res.val.data =
                   IF call.fn = "hgs_to_hgc"
                   THEN Transform(CarringtonMatrices(RetimedObstime),
                                  IF RetimeNeeded THEN RetimedHgs
                                  ELSE call.coord.data)
                   ELSE IF RetimeNeeded THEN RetimedHgs
                   ELSE Transform(Transposed(
                                      CarringtonMatrices(RetimedObstime)),
                                  call.coord.data)

CarringtonOrderWitness ==
    /\ CarringtonCall
    /\ call.fn = "hgc_to_hgs"
    /\ RetimeNeeded
    /\ res.ok
    /\ Len(call.coord.obstime) = 1
    /\ Len(call.frame.obstime) = 1

\* The call raised before it rotated: no obstime on either side.
CarringtonUnset == CarringtonCall /\ RetimedObstime = None /\ ~res.ok

\* The call has ended, and not because the interpreter cut the recursion.
Ended == Returned /\ res.err /= "RecursionError"

\* C29: every call of a transform function with obstimes that are set and
\* observers that are frame instances ends: the chain of nested calls is
\* finite, and never as deep as the interpreter allows.
Terminates == (Running /\ Resolved(call.coord) /\ Resolved(call.frame)) ~> Ended

\* A call that went through nested calls four levels deep has ended.
TerminatesWitness ==
    /\ Returned
    /\ call.fn = "hpc_to_hpc"
    /\ Resolved(call.coord)
    /\ Resolved(call.frame)
    /\ res.ok
    /\ \E i \in 1..Len(res.tr) : res.tr[i].lvl >= 4

\* The call of _make_sunpy_graph is over: it returned or it raised.
CallEnded == At("returned") \/ At("raised")

\* C30: when the call of _make_sunpy_graph is over, by return or by an
\* exception of make_transform_graph_docs, the module-level name
\* frame_transform_graph holds a graph with the nodes and edges it held
\* before the call, never the culled one.
RegistryRestored == CallEnded => graphs[module_graph] = OriginalGraph

\* The call returned, and the name holds the full graph again.
RestoredOnReturn == At("returned") => graphs[module_graph] = OriginalGraph

\* The rendering raised and the name still holds the culled graph.
CulledGraphInstalled ==
    /\ At("raised")
    /\ module_graph = mk.small_graph
    /\ graphs[module_graph] /= OriginalGraph
====
